---- MODULE Spec2Model ----
(***************************************************************************)
(* Capacity orchestration engine of Spotify-Automation:                    *)
(*   SmartproxyManager (endpoint pool), SessionManager (session            *)
(*   lifecycle), ShiftScheduler (capacity windows) and the parts of        *)
(*   SpotifyAutomation that the scheduler commands.                        *)
(***************************************************************************)
EXTENDS Integers, Sequences, FiniteSets, TLC

(***************************************************************************)
(* Bounds of the model                                                     *)
(***************************************************************************)
NumProxies == 2
MaxPerProxy == 2
MaxReports == 2
MaxShifts == 2
MaxCreated == 3
MaxTasks == 1
MaxRecorded == 2
MaxClock == 1
MaxEvents == 3

(***************************************************************************)
(* Program constants                                                       *)
(***************************************************************************)
DefaultMaxSessionsPerProxy == 3
DefaultMaxFailuresBeforeRemoval == 3
DefaultMaxSessions == 50
HoursPerDay == 24

VARIABLES
    heap,          \* proxy objects: object reference -> record (or NoObj)
    proxyPool,     \* this.proxyPool: Map in insertion order, as the sequence of object references
    timers,        \* pending setTimeout re-checks, per object reference captured by the closure
    proxyConfig,   \* this.proxyConfig.maxSessionsPerProxy (0: not configured)
                   \* lastUsed timestamps are kept as their rank in time order (0: null)
    poolStarted,   \* initializeAndStart has awaited proxyManager.initializePool()
    lastOp,        \* the last pool operation and the branch it took
    reports,       \* the handleProxyFailure calls made so far
    evicted,       \* the ids this.proxyPool.delete has run for since the pool was filled
    leased,        \* the id the last pool operation's lease returned (None: null or no lease)
    fetched,       \* the candidates the last pool operation fetched (initializePool only)
    shiftsConfig,  \* this.shiftsConfig: the shifts in key order
    scheduleYaml,  \* what getScheduleConfig() gave initialize() (NotLoaded: not called)
    utcHour,       \* currentTime.getUTCHours()
    utcOffset,     \* offset of the server's local time from UTC, in hours
    maxConfig,     \* maxConcurrentSessions of automation.yaml (0: not configured)
    staleActive,   \* session files of earlier runs whose status counts as active
    shiftResult,   \* what the last getCurrentShift call returned
    allowedActive, \* what the last getActiveSessionCount call returned
    lastCommand,   \* the command the last adjustCapacity call gave the automation
    schedStarted,  \* start() has registered the shift triggers
    due,           \* the shift triggers whose cron time has come
    reconciled,    \* adjustCapacity has run since the current shift began
    sessions,      \* SessionManager.sessions: the live sessions in insertion order
    persisted,     \* the status in each session's file ("" when there is no file)
    nextId,        \* stands for the unique ids of generateSessionId()
    behaviorGlobal,\* whether the free identifier behavior of createSession resolves
    accountsLoaded,\* accountsConfig.accounts is not empty
    tasks,         \* runMoreSessions calls waiting in their stagger delay: starts left
    sessionFiles,  \* what each session's file holds besides the status, as parsed JSON
    ended,         \* the session objects as cleanupSession left them (NoEnded: none)
    summary,       \* what the last getSessionStatsSummary call returned
    recorded,      \* the stats and errors recorded on live sessions so far
    now,           \* Date.now(), in ticks of the clock the session timestamps are read from
    createResult,  \* how the last createSession call ended: an id, null or an exception
    slotLead,      \* how far ahead of new Date() the schedule of a new session starts
                   \* (0: no shiftScheduler was passed to the constructor)
    writeFails,    \* fs.writeFileSync throws in saveSessionData
    logSpy,        \* the logger is a mock that records its calls, as in the tests
    warned,        \* the unknown-session warning the mock recorded for the last
                   \* heartbeat, restartSession or cleanupSession call (NoWarn: none)
    monitored,     \* the session manager was constructed with a monitoringSystem
    metrics,       \* MetricsCollector.metrics: metric name -> value (0: no entry)
    eventLog,      \* the lines recordSessionEvent wrote to the session-events logger
    alerts,        \* the calls of AlertManager.trigger made so far
    healthReport,  \* what the last generateHealthReport call resolved to
    exited,        \* process.exit has been called
    startLog       \* the accounts of the 'Starting new session' lines of
                   \* runMoreSessions, as the mocked logger recorded them

poolVars == <<heap, proxyPool, timers, proxyConfig, poolStarted, lastOp, reports, evicted,
              leased, fetched>>
schedVars == <<shiftsConfig, scheduleYaml, utcHour, utcOffset, maxConfig, staleActive,
               shiftResult, allowedActive, lastCommand, schedStarted, due,
               reconciled>>
\* what the session manager is given from outside: the global scope, the
\* scheduler passed to its constructor and the state of the sessions directory
wiring == <<behaviorGlobal, slotLead, writeFails, logSpy, monitored>>
monVars == <<metrics, eventLog, alerts, healthReport>>
sessVars == <<sessions, persisted, nextId, wiring, accountsLoaded, tasks,
              sessionFiles, ended, summary, recorded, now, createResult, warned,
              monVars, exited, startLog>>
vars == <<poolVars, schedVars, sessVars>>

(***************************************************************************)
(* SmartproxyManager                                                       *)
(***************************************************************************)
ProxyIds == 1..NumProxies
MaxObjs == NumProxies
ObjIds == 1..MaxObjs
None == 0
NoObj == [id |-> None, healthy |-> FALSE, assignedSessions |-> 0, lastUsed |-> 0, consecutiveFailures |-> 0]

Range(s) == {s[i] : i \in 1..Len(s)}

\* first free object reference (objects are allocated by the object literals of initializePool)
FreeObjs == {o \in ObjIds : heap[o] = NoObj /\ timers[o] = 0 /\ o \notin Range(proxyPool)}

\* this.proxyPool.get(id): the object stored under the key, or None
PoolGet(pool, h, id) ==
    IF \E i \in 1..Len(pool) : h[pool[i]].id = id
    THEN pool[CHOOSE i \in 1..Len(pool) : h[pool[i]].id = id]
    ELSE None

\* this.proxyPool.set(id, obj): replaces the value in place, or appends a new key
PoolSet(pool, h, id, o) ==
    IF \E i \in 1..Len(pool) : h[pool[i]].id = id
    THEN [pool EXCEPT ![CHOOSE i \in 1..Len(pool) : h[pool[i]].id = id] = o]
    ELSE Append(pool, o)

\* this.proxyPool.delete(id)
PoolDelete(pool, h, id) ==
    LET keep(o) == h[o].id # id IN SelectSeq(pool, keep)

\* this.proxyConfig.maxSessionsPerProxy || 3
MaxSessionsPerProxy ==
    IF proxyConfig = 0 THEN DefaultMaxSessionsPerProxy ELSE proxyConfig

\* selectProxyForSession with the capacity filter written <= instead of <
AvailableProxiesInclusive(pool, h) ==
    LET ok(o) == h[o].healthy /\ h[o].assignedSessions <= MaxSessionsPerProxy
    IN SelectSeq(pool, ok)

\* selectProxyForSession without its health filter
AvailableProxiesAnyHealth(pool, h) ==
    LET ok(o) == h[o].assignedSessions < MaxSessionsPerProxy
    IN SelectSeq(pool, ok)

\* the two filters of selectProxyForSession
AvailableProxies(pool, h) ==
    LET ok(o) == h[o].healthy /\ h[o].assignedSessions < MaxSessionsPerProxy
    IN SelectSeq(pool, ok)

\* the comparator without its tie-break on lastUsed
SortsBeforeByCount(a, b) == a.assignedSessions < b.assignedSessions

\* the comparator of the sort: fewest assigned first, then never used, then oldest use
SortsBefore(a, b) ==
    \/ a.assignedSessions < b.assignedSessions
    \/ /\ a.assignedSessions = b.assignedSessions
       /\ a.lastUsed < b.lastUsed

\* availableProxies[0] after the (stable) sort, or None when the list is empty
SelectedProxy(pool, h) ==
    LET av == AvailableProxies(pool, h)
    IN IF Len(av) = 0 THEN None
       ELSE av[CHOOSE i \in 1..Len(av) :
                 /\ \A j \in 1..Len(av) : ~SortsBefore(h[av[j]], h[av[i]])
                 /\ \A j \in 1..(i-1) : SortsBefore(h[av[i]], h[av[j]])]

\* the latest timestamp any proxy object carries
LatestUse(h) == CHOOSE t \in {h[o].lastUsed : o \in ObjIds} :
                    \A o \in ObjIds : h[o].lastUsed <= t

\* timestamps renumbered by rank: only their order is ever compared
RankTimes(h) ==
    [o \in ObjIds |->
        [h[o] EXCEPT !.lastUsed =
            IF @ = 0 THEN 0
            ELSE Cardinality({h[q].lastUsed : q \in ObjIds} \cap (1..(@ - 1))) + 1]]

\* new Date(): the millisecond of the latest lease (sameMs) or a later one
NewDate(h, sameMs) ==
    IF sameMs /\ LatestUse(h) > 0 THEN LatestUse(h) ELSE LatestUse(h) + 1

\* heap after selectProxyForSession: the selected object is leased
HeapAfterSelect(pool, h, sameMs) ==
    LET o == SelectedProxy(pool, h)
    IN IF o = None THEN h
       ELSE RankTimes([h EXCEPT ![o].assignedSessions = @ + 1,
                                ![o].lastUsed = NewDate(h, sameMs)])

\* the value returned by selectProxyForSession: the id of the proxy, or None
SelectReturn(pool, h) ==
    LET o == SelectedProxy(pool, h)
    IN IF o = None THEN None ELSE h[o].id

\* the decrement without its floor at zero
DecrementAssignedNoFloor(n) == n - 1

\* Math.max(0, proxy.assignedSessions - 1)
DecrementAssigned(n) == IF n - 1 > 0 THEN n - 1 ELSE 0

PoolInit ==
    /\ heap = [o \in ObjIds |-> NoObj]
    /\ proxyPool = <<>>
    /\ timers = [o \in ObjIds |-> 0]
    /\ proxyConfig = MaxPerProxy
    /\ poolStarted = FALSE
    /\ lastOp = "new"
    /\ reports = 0
    /\ evicted = {}
    /\ leased = None
    /\ fetched = <<>>

\* objects for the candidates, in list order: the k-th candidate gets the k-th free reference
NewObjFor(p, free) ==
    CHOOSE o \in free : Cardinality({q \in free : q < o}) = p - 1

InitializePool(passed) ==
    /\ ~poolStarted
    /\ Cardinality(FreeObjs) >= NumProxies
    /\ LET free == FreeObjs
           fresh == {NewObjFor(p, free) : p \in ProxyIds}
           cleared == [o \in ObjIds |->
                         IF o \in Range(proxyPool) /\ timers[o] = 0 THEN NoObj ELSE heap[o]]
       IN /\ heap' = [o \in ObjIds |->
                        IF o \in fresh
                        THEN LET p == CHOOSE q \in ProxyIds : NewObjFor(q, free) = o
                             IN [id |-> p, healthy |-> (p \in passed), assignedSessions |-> 0,
                                 lastUsed |-> 0,
                                 consecutiveFailures |-> IF p \in passed THEN 0 ELSE 1]
                        ELSE cleared[o]]
          /\ proxyPool' = [p \in ProxyIds |-> NewObjFor(p, free)]
    /\ poolStarted' = TRUE
    /\ lastOp' = "initializePool"
    /\ evicted' = {}
    /\ fetched' = [p \in ProxyIds |-> [id |-> p, hostPort |-> TRUE, probe |-> (p \in passed)]]
    /\ leased' = None
    /\ UNCHANGED <<timers, proxyConfig, reports, schedVars, sessVars>>

\* a fetched candidate: its id, whether it has host and port, and what the
\* health probe answers for it; a candidate without host or port is skipped
\* before its id is read and is never probed, so one such candidate stands for all
Candidates ==
    [id : ProxyIds, hostPort : {TRUE}, probe : BOOLEAN]
        \cup {[id |-> None, hostPort |-> FALSE, probe |-> FALSE]}

\* the lists fetchProxyList can return: predefined_proxies as configured
FetchedLists ==
    UNION {[1..n -> Candidates] : n \in 0..NumProxies}

\* the object literal with the health flag always set
PoolEntryAlwaysHealthy(candidate) ==
    [id |-> candidate.id, healthy |-> TRUE, assignedSessions |-> 0, lastUsed |-> 0,
     consecutiveFailures |-> IF candidate.probe THEN 0 ELSE 1]

\* the object literal initializePool stores for a candidate
PoolEntry(candidate) ==
    [id |-> candidate.id, healthy |-> candidate.probe, assignedSessions |-> 0, lastUsed |-> 0,
     consecutiveFailures |-> IF candidate.probe THEN 0 ELSE 1]

\* the objects clear() leaves unreferenced: all but those a pending re-check holds
Unreferenced == {o \in ObjIds : timers[o] = 0}

\* the loop of initializePool over the fetched candidates
RECURSIVE FillPool(_, _, _, _)
FillPool(pool, h, fetchedProxies, free) ==
    IF fetchedProxies = <<>> THEN [pool |-> pool, heap |-> h]
    ELSE LET proxy == Head(fetchedProxies)
             o == CHOOSE q \in free : \A r \in free : q <= r
             replaced == PoolGet(pool, h, proxy.id)
             h1 == [q \in ObjIds |->
                      IF q = o THEN PoolEntry(proxy)
                      ELSE IF q = replaced THEN NoObj
                      ELSE h[q]]
         IN IF ~proxy.hostPort
            THEN FillPool(pool, h, Tail(fetchedProxies), free)
            ELSE FillPool(PoolSet(pool, h, proxy.id, o), h1, Tail(fetchedProxies),
                          free \ {o})

\* initializePool for any fetched list, on a new pool or on one in use
InitializePoolFrom(fetchedProxies) ==
    /\ Cardinality(Unreferenced) >= Len(fetchedProxies)
    /\ LET cleared == [o \in ObjIds |-> IF o \in Unreferenced THEN NoObj ELSE heap[o]]
           filled == FillPool(<<>>, cleared, fetchedProxies, Unreferenced)
       IN /\ heap' = RankTimes(filled.heap)
          /\ proxyPool' = filled.pool
    /\ poolStarted' = TRUE
    /\ lastOp' = "initializePool"
    /\ evicted' = {}
    /\ fetched' = fetchedProxies
    /\ leased' = None
    /\ UNCHANGED <<timers, proxyConfig, reports, schedVars, sessVars>>

\* the effect of selectProxyForSession on the pool
Lease(sameMs) ==
    /\ heap' = HeapAfterSelect(proxyPool, heap, sameMs)
    /\ lastOp' = IF SelectReturn(proxyPool, heap) = None THEN "leaseUnavailable" ELSE "lease"
    /\ leased' = SelectReturn(proxyPool, heap)
    /\ fetched' = <<>>
    /\ UNCHANGED <<proxyPool, timers, proxyConfig, poolStarted, reports, evicted>>

SelectProxyForSession(sameMs) ==
    /\ Lease(sameMs)
    /\ UNCHANGED <<schedVars, sessVars>>

ReleaseProxy(p) ==
    /\ LET o == PoolGet(proxyPool, heap, p)
       IN heap' = IF o = None THEN heap
                  ELSE [heap EXCEPT ![o].assignedSessions = DecrementAssigned(@)]
    /\ lastOp' = IF PoolGet(proxyPool, heap, p) = None THEN "releaseUnknown" ELSE "release"
    /\ fetched' = <<>>
    /\ leased' = None
    /\ UNCHANGED <<proxyPool, timers, proxyConfig, poolStarted, reports, evicted, schedVars,
                   sessVars>>

HandleProxyFailure(p, sameMs) ==
    LET o == PoolGet(proxyPool, heap, p)
        marked == IF o = None THEN heap
                  ELSE [heap EXCEPT ![o].healthy = FALSE,
                                    ![o].consecutiveFailures = @ + 1,
                                    ![o].assignedSessions = DecrementAssigned(@)]
    IN /\ reports < MaxReports
       /\ reports' = reports + 1
       /\ timers' = IF o = None THEN timers ELSE [timers EXCEPT ![o] = @ + 1]
       /\ heap' = HeapAfterSelect(proxyPool, marked, sameMs)
       /\ leased' = SelectReturn(proxyPool, marked)
       /\ fetched' = <<>>
       /\ lastOp' = "reportFailure"
       /\ UNCHANGED <<proxyPool, proxyConfig, poolStarted, evicted, schedVars, sessVars>>

\* the setTimeout callback of handleProxyFailure, for the object captured by its closure
RecheckFire(o, isHealthy) ==
    /\ timers[o] > 0
    /\ timers' = [timers EXCEPT ![o] = @ - 1]
    /\ LET p == heap[o].id
           remove == ~isHealthy /\ heap[o].consecutiveFailures >= DefaultMaxFailuresBeforeRemoval
           h1 == [heap EXCEPT ![o].healthy = isHealthy,
                              ![o].consecutiveFailures = IF isHealthy THEN 0 ELSE @]
           pool1 == IF remove THEN PoolDelete(proxyPool, h1, p) ELSE proxyPool
           pool2 == PoolSet(pool1, h1, p, o)
       IN /\ proxyPool' = pool2
          /\ heap' = RankTimes([q \in ObjIds |->
                        IF q \notin Range(pool2) /\ timers'[q] = 0 THEN NoObj ELSE h1[q]])
          /\ lastOp' = IF remove THEN "recheckRemove" ELSE "recheck"
          /\ evicted' = IF remove THEN evicted \cup {p} ELSE evicted
    /\ fetched' = <<>>
    /\ leased' = None
    /\ UNCHANGED <<proxyConfig, poolStarted, reports, schedVars, sessVars>>

PoolNext ==
    \/ \E passed \in SUBSET ProxyIds : InitializePool(passed)
    \/ \E sameMs \in BOOLEAN : SelectProxyForSession(sameMs)
    \/ \E p \in ProxyIds : ReleaseProxy(p)
    \/ \E p \in ProxyIds, sameMs \in BOOLEAN : HandleProxyFailure(p, sameMs)
    \/ \E o \in ObjIds, isHealthy \in BOOLEAN : RecheckFire(o, isHealthy)

(***************************************************************************)
(* SessionManager                                                          *)
(***************************************************************************)
SessionIds == 1..MaxCreated
TerminalStatuses == {"completed", "failed", "stopped"}
\* the statuses getSessionStatsSummary adds up as operationally active
ActiveStatuses == {"running", "initializing", "idle", "paused", "restarting"}
\* the statuses stopSomeSessions picks its candidates from
StoppableStatuses == {"running", "idle", "initializing", "paused"}

\* the stats of a new SpotifySession
InitialStats ==
    [successfulStreams |-> 0, failedStreams |-> 0, totalPlaytime |-> 0,
     loginAttempts |-> 0, errors |-> <<>>]

\* a field that has not been assigned (undefined); no difference of two
\* timestamps of the clock is that low
NoDuration == 0 - MaxClock - 2

\* the account configurations createSession is called with; NoAccount is
\* config.account of a config that has no such property (undefined)
Accounts == {"a", "b"}
OneAccount == {"a"}
NoAccount == ""

\* new Date(): a Date object of the current instant
Now == [ticks |-> now]

\* Date.prototype.toJSON: the ISO string of the instant
DateToJSON(d) == [iso |-> d.ticks]

\* new Date(isoString)
ParseDate(str) == [ticks |-> str.iso]

\* session.endTime - startTimeDate, with endTime = new Date()
DurationSince(startTime) == Now.ticks - startTime.ticks

\* JSON.parse(JSON.stringify({...session})) for the fields kept here: numbers
\* and strings are kept, every Date becomes its ISO string
ToJSON(session, duration) ==
    [startTime |-> DateToJSON(session.startTime),
     duration |-> duration,
     stats |-> [session.stats EXCEPT !.errors =
                  [i \in 1..Len(session.stats.errors) |->
                      [session.stats.errors[i] EXCEPT !.timestamp = DateToJSON(@)]]]]

\* no file of that name
NoFile == [startTime |-> [iso |-> 0], duration |-> NoDuration, stats |-> InitialStats]

\* no session object has been cleaned up under that id
NoEnded == [status |-> "", duration |-> NoDuration, stats |-> InitialStats]

\* no getSessionStatsSummary call has returned
NoSummary == [totalTrackedSessions |-> 0 - 1]

\* the mocked logger has recorded no unknown-session warning
NoWarn == [op |-> "", id |-> None, arg |-> ""]

\* createSession has not been called
NoCall == [kind |-> "", id |-> None]

(***************************************************************************)
(* MonitoringSystem: metrics, the session-events log and the alerts        *)
(***************************************************************************)
\* the events the session manager records
SessionEvents == {"session_created", "status_changed", "error_recorded", "proxy_error"}

\* criticalEvents of recordSessionEvent
CriticalEvents == {"error", "crash", "critical_failure", "login_failed_max_retries",
                   "proxy_unavailable_critical"}

\* the events recordSessionEvent is called with: those of the session manager,
\* the pulse of the heartbeat interval, and those a client records
Events == SessionEvents \cup {"heartbeat_pulse", "error", "crash", "completed", "failed"}

\* data.errorType ("": the data carries none)
ErrorTypes == {"login_error"}
NoErrorType == ""

\* the data of an event: errorType and isCritical are what recordSessionEvent
\* looks at; the statuses are those of a status_changed event
NoDetails == [errorType |-> NoErrorType, isCritical |-> FALSE, oldStatus |-> "", newStatus |-> ""]

\* `session.${event}` and `session.error.${data.errorType}`
MetricName(event) == "session." \o event
ErrorMetricName(errorType) == "session.error." \o errorType
GaugeName == "active_sessions_gauge"
MetricNames ==
    {MetricName(e) : e \in Events} \cup {ErrorMetricName(t) : t \in ErrorTypes} \cup {GaugeName}

\* MetricsCollector.getMetric
GetMetric(m, metricName) == m[metricName]

\* an increment that leaves the counter as it was
IncrementLost(m, metricName) == m

\* MetricsCollector.increment(metricName), value defaulting to 1
Increment(m, metricName) == [m EXCEPT ![metricName] = GetMetric(m, metricName) + 1]

\* getSuccessRate(), in hundredths: 1 when no session.completed or
\* session.failed event was counted, else completed / totalEnded rounded to
\* two decimals by toFixed(2)
GetSuccessRate(m) ==
    LET completed == GetMetric(m, MetricName("completed"))
        failed == GetMetric(m, MetricName("failed"))
        totalEnded == completed + failed
    IN IF totalEnded = 0 THEN 100
       ELSE (200 * completed + totalEnded) \div (2 * totalEnded)

\* the entry recordSessionEvent logs, without its timestamp and shift
LogEntry(sessionId, event, data) == [sessionId |-> sessionId, event |-> event, details |-> data]

\* the alert condition without data.isCritical
AlertsOnCriticalEventOnly(event, data) == event \in CriticalEvents

\* criticalEvents.includes(event) || data.isCritical
Alerts(event, data) == event \in CriticalEvents \/ data.isCritical

\* recordSessionEvent: the metrics after the event
MetricsAfterEvent(m, event, data) ==
    LET counted == Increment(m, MetricName(event))
    IN IF data.errorType # NoErrorType
       THEN Increment(counted, ErrorMetricName(data.errorType))
       ELSE counted

\* the metrics after the events evs, recorded in order
RECURSIVE MetricsAfterEvents(_, _)
MetricsAfterEvents(m, evs) ==
    IF evs = <<>> THEN m
    ELSE MetricsAfterEvents(MetricsAfterEvent(m, Head(evs).event, Head(evs).details), Tail(evs))

\* recordSessionEvent run for each of evs in order: every event is logged and
\* counted, and the alert manager is triggered for the critical ones
RecordAll(evs) ==
    /\ Len(eventLog) + Len(evs) <= MaxEvents
    /\ metrics' = MetricsAfterEvents(metrics, evs)
    /\ eventLog' = eventLog \o evs
    /\ alerts' = alerts \o SelectSeq(evs, LAMBDA e : Alerts(e.event, e.details))
    /\ UNCHANGED healthReport

\* the events of a call on the session manager: none without a monitoringSystem
Monitored(evs) == IF monitored THEN evs ELSE <<>>

\* no generateHealthReport call has resolved
NoReport == [overallStatus |-> ""]

\* the monitoring system after construction
MonIdle ==
    /\ metrics = [n \in MetricNames |-> 0]
    /\ eventLog = <<>>
    /\ alerts = <<>>
    /\ healthReport = NoReport

\* the records of the session manager after construction
RecIdle ==
    /\ sessionFiles = [id \in SessionIds |-> NoFile]
    /\ ended = [id \in SessionIds |-> NoEnded]
    /\ summary = NoSummary
    /\ recorded = 0
    /\ now = 0
    /\ createResult = NoCall
    /\ slotLead = 0
    /\ writeFails = FALSE
    /\ logSpy = FALSE
    /\ warned = NoWarn
    /\ monitored = FALSE
    /\ MonIdle
    /\ exited = FALSE
    /\ startLog = <<>>

\* session manager state after construction
SessIdle ==
    /\ sessions = <<>>
    /\ persisted = [id \in SessionIds |-> ""]
    /\ nextId = 1
    /\ behaviorGlobal = FALSE
    /\ accountsLoaded = FALSE
    /\ tasks = <<>>
    /\ RecIdle

\* this.sessions.get(sessionId): position of the live session, 0 when absent
LiveIndex(ss, id) ==
    IF \E i \in 1..Len(ss) : ss[i].id = id
    THEN CHOOSE i \in 1..Len(ss) : ss[i].id = id
    ELSE 0

\* SpotifySession.isHealthy()
IsHealthy(session) == session.status # "failed" /\ session.status # "unhealthy"

\* the status_changed event of updateSessionStatus(id, status) on a live session
StatusChanged(ss, id, status) ==
    IF LiveIndex(ss, id) = 0 THEN <<>>
    ELSE <<LogEntry(id, "status_changed",
                    [NoDetails EXCEPT !.oldStatus = ss[LiveIndex(ss, id)].status,
                                      !.newStatus = status])>>

\* what the mocked logger holds after a call of op for id: the warning of an
\* unknown session when the id is not in the live map, no warning otherwise
Warning(op, id, arg) ==
    IF ~logSpy THEN warned
    ELSE IF LiveIndex(sessions, id) = 0 THEN [op |-> op, id |-> id, arg |-> arg]
    ELSE NoWarn

\* recordHeartbeat also marking the session 'running'
SessionsAfterHeartbeatRunning(ss, id) ==
    IF LiveIndex(ss, id) = 0 THEN ss
    ELSE [ss EXCEPT ![LiveIndex(ss, id)].lastHeartbeat = Now,
                    ![LiveIndex(ss, id)].status = "running"]

\* HealthMonitor.recordHeartbeat: session.lastHeartbeat = new Date()
SessionsAfterHeartbeat(ss, id) ==
    IF LiveIndex(ss, id) = 0 THEN ss
    ELSE [ss EXCEPT ![LiveIndex(ss, id)].lastHeartbeat = Now]

\* updateSessionStatus: the live map afterwards
SessionsAfterUpdate(ss, id, status) ==
    IF LiveIndex(ss, id) = 0 THEN ss
    ELSE [ss EXCEPT ![LiveIndex(ss, id)].status = status]

\* updateSessionStatus writing the status file without looking the id up
PersistedAfterUpdateUnchecked(ss, ps, id, status) ==
    IF writeFails THEN ps ELSE [ps EXCEPT ![id] = status]

\* updateSessionStatus: the session files afterwards (saveSessionData)
PersistedAfterUpdate(ss, ps, id, status) ==
    IF LiveIndex(ss, id) = 0 \/ writeFails THEN ps ELSE [ps EXCEPT ![id] = status]

\* saveSessionData(id, session): the files afterwards; the session waits for
\* its duration until cleanupSession assigns it; a write that throws is
\* caught and logged and leaves the file as it was
FilesAfterSave(ss, fs, id) ==
    IF LiveIndex(ss, id) = 0 \/ writeFails THEN fs
    ELSE [fs EXCEPT ![id] = ToJSON(ss[LiveIndex(ss, id)], NoDuration)]

\* cleanupSession keeping the session in the map when its save failed
SessionsAfterCleanupIfSaved(ss, id) ==
    IF writeFails THEN ss ELSE SelectSeq(ss, LAMBDA x : x.id # id)

\* cleanupSession: the live map afterwards
SessionsAfterCleanup(ss, id) == SelectSeq(ss, LAMBDA x : x.id # id)

\* cleanupSession saving the session before it assigns the duration
FilesAfterCleanupEarly(ss, fs, id) ==
    IF LiveIndex(ss, id) = 0 \/ writeFails THEN fs
    ELSE [fs EXCEPT ![id] = ToJSON(ss[LiveIndex(ss, id)], NoDuration)]

\* cleanupSession: the files afterwards; endTime and duration are assigned
\* before updateSessionStatus saves the session
FilesAfterCleanup(ss, fs, id) ==
    IF LiveIndex(ss, id) = 0 \/ writeFails THEN fs
    ELSE [fs EXCEPT ![id] = ToJSON(ss[LiveIndex(ss, id)],
                                   DurationSince(ss[LiveIndex(ss, id)].startTime))]

\* cleanupSession: the session object it leaves behind
EndedAfterCleanup(ss, en, id, finalStatus) ==
    IF LiveIndex(ss, id) = 0 THEN en
    ELSE [en EXCEPT ![id] = [status |-> finalStatus,
                             duration |-> DurationSince(ss[LiveIndex(ss, id)].startTime),
                             stats |-> ss[LiveIndex(ss, id)].stats]]

\* manageLifecycle: an unhealthy session is marked 'unhealthy' and saved, a
\* session past its schedule end is cleaned up as 'completed'
LifecycleStatus(session, expired) ==
    IF session.id \in expired THEN "completed"
    ELSE IF IsHealthy(session) THEN session.status ELSE "unhealthy"

\* getSessionStatsSummary().operationallyActiveSessions: the session files
\* merged with the live map, the live version winning
OperationallyActiveSessions(ss, ps) ==
    staleActive
    + Cardinality({i \in 1..Len(ss) : ss[i].status \in ActiveStatuses})
    + Cardinality({id \in SessionIds : LiveIndex(ss, id) = 0 /\ ps[id] \in ActiveStatuses})

\* allPersistedSessions: the parsed session files in directory order
PersistedSessions(ps, fs) ==
    LET all == [id \in SessionIds |-> [id |-> id, status |-> ps[id], stats |-> fs[id].stats]]
    IN SelectSeq(all, LAMBDA x : x.status # "")

\* combinedSessions with every live session pushed, whether or not a file of
\* its id was loaded
CombineAppending(combined, ss) ==
    combined \o [k \in 1..Len(ss) |->
                    [id |-> ss[k].id, status |-> ss[k].status, stats |-> ss[k].stats]]

\* combinedSessions after this.sessions.forEach: the live session replaces the
\* loaded record of its id (findIndex), or is pushed when there is none
RECURSIVE Combine(_, _)
Combine(combined, ss) ==
    IF ss = <<>> THEN combined
    ELSE LET active == [id |-> Head(ss).id, status |-> Head(ss).status, stats |-> Head(ss).stats]
             found == {i \in 1..Len(combined) : combined[i].id = active.id}
             index == IF found = {} THEN 0
                      ELSE CHOOSE i \in found : \A j \in found : i <= j
         IN Combine(IF index # 0 THEN [combined EXCEPT ![index] = active]
                    ELSE Append(combined, active),
                    Tail(ss))

\* combinedSessions.filter(s => s.status === status).length
CountStatus(combined, status) ==
    Cardinality({i \in 1..Len(combined) : combined[i].status = status})

\* the sum the forEach over combinedSessions accumulates for one statistic
RECURSIVE TotalOf(_, _)
TotalOf(combined, statType) ==
    IF combined = <<>> THEN 0
    ELSE Head(combined).stats[statType] + TotalOf(Tail(combined), statType)

\* getSessionStatsSummary(); the files that earlier runs left active are files
\* of sessions left 'running'
GetSessionStatsSummary(ss, ps, fs) ==
    LET combined == Combine(PersistedSessions(ps, fs), ss)
        count(status) == CountStatus(combined, status)
    IN [totalTrackedSessions |-> staleActive + Len(combined),
        initializingSessions |-> count("initializing"),
        runningSessions |-> staleActive + count("running"),
        idleSessions |-> count("idle"),
        pausedSessions |-> count("paused"),
        stoppedSessions |-> count("stopped"),
        failedSessions |-> count("failed"),
        completedSessions |-> count("completed"),
        restartingSessions |-> count("restarting"),
        unhealthySessions |-> count("unhealthy"),
        unknownSessions |-> count("unknown_persisted_state"),
        operationallyActiveSessions |->
            staleActive + count("running") + count("initializing") + count("idle")
            + count("paused") + count("restarting"),
        totalSuccessfulStreams |-> TotalOf(combined, "successfulStreams"),
        totalFailedStreams |-> TotalOf(combined, "failedStreams"),
        totalPlaytime |-> TotalOf(combined, "totalPlaytime")]

\* a client reads the summary
GetSessionStatsSummaryCall ==
    /\ summary' = GetSessionStatsSummary(sessions, persisted, sessionFiles)
    /\ UNCHANGED <<poolVars, schedVars, sessions, persisted, nextId, wiring, monVars, exited, startLog,
                   warned, accountsLoaded, tasks, sessionFiles, ended, recorded, now,
                   createResult>>

\* schedule.startTime: shiftScheduler.getNextSlot().startTime when a scheduler
\* was passed to the constructor, new Date() when none was
SlotStart == [ticks |-> now + slotLead]

\* a SpotifySession constructed without the account of its options
NewSessionUnbound(id, account, proxy) ==
    [id |-> id, account |-> NoAccount, status |-> "initializing", proxy |-> proxy,
     createdAt |-> Now, lastHeartbeat |-> Now, startTime |-> SlotStart,
     stats |-> InitialStats]

\* new SpotifySession(sessionOptions)
NewSession(id, account, proxy) ==
    [id |-> id, account |-> account, status |-> "initializing", proxy |-> proxy,
     createdAt |-> Now, lastHeartbeat |-> Now, startTime |-> SlotStart,
     stats |-> InitialStats]

\* how a createSession call ends: it returns null without a proxy, throws at
\* the identifier behavior unless a global of that name exists, and returns
\* the new id otherwise
CreateReturn ==
    IF SelectReturn(proxyPool, heap) = None THEN [kind |-> "null", id |-> None]
    ELSE IF behaviorGlobal THEN [kind |-> "id", id |-> nextId]
    ELSE [kind |-> "ReferenceError", id |-> None]

\* the body of createSession: the proxy is leased first; sessionOptions then
\* reads the identifier behavior, which throws unless a global of that name
\* exists; only after it is the session stored and saved
CreateEvents ==
    IF SelectReturn(proxyPool, heap) = None THEN <<LogEntry(nextId, "proxy_error", NoDetails)>>
    ELSE IF behaviorGlobal THEN <<LogEntry(nextId, "session_created", NoDetails)>>
    ELSE <<>>

CreateSessionBody(account, sameMs) ==
    /\ nextId <= MaxCreated
    /\ Lease(sameMs)
    /\ RecordAll(Monitored(CreateEvents))
    /\ IF SelectReturn(proxyPool, heap) # None /\ behaviorGlobal
       THEN /\ sessions' = Append(sessions, NewSession(nextId, account,
                                                       SelectReturn(proxyPool, heap)))
            /\ persisted' = IF writeFails THEN persisted
                            ELSE [persisted EXCEPT ![nextId] = "initializing"]
            /\ sessionFiles' = FilesAfterSave(sessions', sessionFiles, nextId)
            /\ nextId' = nextId + 1
       ELSE UNCHANGED <<sessions, persisted, sessionFiles, nextId>>
    /\ createResult' = CreateReturn
    /\ UNCHANGED <<ended, summary, recorded, now>>

CreateSession(account, sameMs) ==
    /\ CreateSessionBody(account, sameMs)
    /\ UNCHANGED <<schedVars, wiring, exited, startLog, warned, accountsLoaded, tasks>>

UpdateSessionStatus(id, status) ==
    /\ sessions' = SessionsAfterUpdate(sessions, id, status)
    /\ persisted' = PersistedAfterUpdate(sessions, persisted, id, status)
    /\ sessionFiles' = FilesAfterSave(sessions, sessionFiles, id)
    /\ RecordAll(Monitored(StatusChanged(sessions, id, status)))
    /\ UNCHANGED <<poolVars, schedVars, nextId, wiring, exited, startLog, warned, accountsLoaded, tasks,
                   ended, summary, recorded, now, createResult>>

\* updateSessionStats(id, statType, value) for the numeric stats
UpdateSessionStats(id, statType, value) ==
    /\ recorded < MaxRecorded
    /\ recorded' = IF LiveIndex(sessions, id) = 0 THEN recorded ELSE recorded + 1
    /\ sessions' = IF LiveIndex(sessions, id) = 0 THEN sessions
                   ELSE [sessions EXCEPT ![LiveIndex(sessions, id)].stats[statType] = @ + value]
    /\ sessionFiles' = FilesAfterSave(sessions', sessionFiles, id)
    /\ persisted' = PersistedAfterUpdate(sessions, persisted, id,
                                         sessions[LiveIndex(sessions, id)].status)
    /\ UNCHANGED <<poolVars, schedVars, nextId, wiring, monVars, exited, startLog, warned,
                   accountsLoaded, tasks, ended, summary, now, createResult>>

\* the entry addSessionError pushes: error.message || error.toString(),
\* error.stack || null (an error without a stack carries NoStack), the
\* activity, and the time of the call
ErrorEntry(error, currentActivity) ==
    [timestamp |-> Now,
     message |-> IF error.message # "" THEN error.message ELSE error.text,
     stack |-> error.stack,
     activity |-> currentActivity]

\* addSessionError with the entry put in front of the list
SessionsAfterErrorInFront(ss, id, error, currentActivity) ==
    IF LiveIndex(ss, id) = 0 THEN ss
    ELSE [ss EXCEPT ![LiveIndex(ss, id)].stats.errors =
              <<ErrorEntry(error, currentActivity)>> \o @]

\* addSessionError: the live map after the push
SessionsAfterError(ss, id, error, currentActivity) ==
    IF LiveIndex(ss, id) = 0 THEN ss
    ELSE [ss EXCEPT ![LiveIndex(ss, id)].stats.errors =
              Append(@, ErrorEntry(error, currentActivity))]

\* the events of addSessionError on a live session: error_recorded, and the
\* status_changed of the update to 'failed' when the error is critical
ErrorEvents(ss, id, isCritical) ==
    IF LiveIndex(ss, id) = 0 THEN <<>>
    ELSE <<LogEntry(id, "error_recorded", [NoDetails EXCEPT !.isCritical = isCritical])>>
         \o (IF isCritical THEN StatusChanged(ss, id, "failed") ELSE <<>>)

\* addSessionError: the entry is pushed, a critical error sets the status to
\* 'failed', and the session is saved
AddSessionError(id, error, currentActivity, isCritical) ==
    LET pushed == SessionsAfterError(sessions, id, error, currentActivity)
    IN /\ recorded < MaxRecorded
       /\ recorded' = IF LiveIndex(sessions, id) = 0 THEN recorded ELSE recorded + 1
       /\ sessions' = IF isCritical THEN SessionsAfterUpdate(pushed, id, "failed") ELSE pushed
       /\ persisted' = PersistedAfterUpdate(sessions, persisted, id,
                                            sessions'[LiveIndex(sessions, id)].status)
       /\ sessionFiles' = FilesAfterSave(sessions', sessionFiles, id)
       /\ RecordAll(Monitored(ErrorEvents(sessions, id, isCritical)))
       /\ UNCHANGED <<poolVars, schedVars, nextId, wiring, exited, startLog, warned, accountsLoaded,
                      tasks, ended, summary, now, createResult>>

\* time passes on the clock of the session timestamps
Tick ==
    /\ now < MaxClock
    /\ now' = now + 1
    /\ UNCHANGED <<poolVars, schedVars, sessions, persisted, nextId, wiring, monVars, exited, startLog,
                   warned, accountsLoaded, tasks, sessionFiles, ended, summary, recorded,
                   createResult>>

CleanupSession(id, finalStatus) ==
    /\ persisted' = PersistedAfterUpdate(sessions, persisted, id, finalStatus)
    /\ sessionFiles' = FilesAfterCleanup(sessions, sessionFiles, id)
    /\ ended' = EndedAfterCleanup(sessions, ended, id, finalStatus)
    /\ sessions' = SessionsAfterCleanup(sessions, id)
    /\ warned' = Warning("cleanupSession", id, finalStatus)
    /\ RecordAll(Monitored(StatusChanged(sessions, id, finalStatus)))
    /\ UNCHANGED <<poolVars, schedVars, nextId, wiring, exited, startLog, accountsLoaded, tasks,
                   summary, recorded, now, createResult>>

\* heartbeat(id): the monitor stamps the live session and the session is
\* saved; an unknown id is only warned about
Heartbeat(id) ==
    /\ sessions' = SessionsAfterHeartbeat(sessions, id)
    /\ persisted' = PersistedAfterUpdate(sessions, persisted, id,
                                         sessions[LiveIndex(sessions, id)].status)
    /\ sessionFiles' = FilesAfterSave(sessions', sessionFiles, id)
    /\ warned' = Warning("heartbeat", id, "")
    /\ UNCHANGED <<poolVars, schedVars, nextId, wiring, monVars, exited, startLog, accountsLoaded,
                   tasks, ended, summary, recorded, now, createResult>>

\* restartSession(id): the live session is cleaned up as 'restarting' and
\* createSession({ account: oldSession.account }) is awaited; an unknown id is
\* only warned about
RestartSession(id, sameMs) ==
    LET cleaned == SessionsAfterCleanup(sessions, id)
        files == FilesAfterCleanup(sessions, sessionFiles, id)
        statuses == PersistedAfterUpdate(sessions, persisted, id, "restarting")
        created == SelectReturn(proxyPool, heap) # None /\ behaviorGlobal
        new == NewSession(nextId, sessions[LiveIndex(sessions, id)].account,
                          SelectReturn(proxyPool, heap))
    IN /\ warned' = Warning("restartSession", id, "")
       /\ IF LiveIndex(sessions, id) = 0
          THEN UNCHANGED <<poolVars, sessions, persisted, sessionFiles, ended, nextId,
                           createResult, monVars>>
          ELSE /\ nextId <= MaxCreated
               /\ Lease(sameMs)
               /\ RecordAll(Monitored(StatusChanged(sessions, id, "restarting")
                                      \o CreateEvents))
               /\ ended' = EndedAfterCleanup(sessions, ended, id, "restarting")
               /\ sessions' = IF created THEN Append(cleaned, new) ELSE cleaned
               /\ persisted' = IF created /\ ~writeFails
                               THEN [statuses EXCEPT ![nextId] = "initializing"]
                               ELSE statuses
               /\ sessionFiles' = IF created THEN FilesAfterSave(sessions', files, nextId)
                                  ELSE files
               /\ nextId' = IF created THEN nextId + 1 ELSE nextId
               /\ createResult' = CreateReturn
       /\ UNCHANGED <<schedVars, wiring, exited, startLog, accountsLoaded, tasks, summary, recorded, now>>

\* the sessions directory stops or starts taking writes
StoreFault ==
    /\ writeFails' = ~writeFails
    /\ UNCHANGED <<poolVars, schedVars, sessions, persisted, nextId, behaviorGlobal,
                   slotLead, logSpy, monitored, monVars, exited, startLog, accountsLoaded, tasks,
                   sessionFiles, ended, summary,
                   recorded, now, createResult, warned>>

\* the events of one pass of manageLifecycle: the status_changed of each
\* cleanup, in the order of the live map
LifecycleEvents(ss, expired) ==
    LET past == SelectSeq(ss, LAMBDA x : x.id \in expired)
    IN [i \in 1..Len(past) |->
          LogEntry(past[i].id, "status_changed",
                   [NoDetails EXCEPT !.oldStatus = IF IsHealthy(past[i]) THEN past[i].status
                                                   ELSE "unhealthy",
                                     !.newStatus = "completed"])]

\* one pass of manageLifecycle; the sessions created earliest reach their
\* schedule end (creation + 1 h) first, so those past it are the ids up to k
ManageLifecycle(k) ==
    LET expired == {id \in SessionIds : id <= k}
        saved == {id \in SessionIds :
                    /\ LiveIndex(sessions, id) # 0
                    /\ (id \in expired \/ ~IsHealthy(sessions[LiveIndex(sessions, id)]))}
    IN /\ sessions # <<>>
       /\ persisted' = [id \in SessionIds |->
                          IF id \notin saved \/ writeFails THEN persisted[id]
                          ELSE LifecycleStatus(sessions[LiveIndex(sessions, id)], expired)]
       /\ sessionFiles' = [id \in SessionIds |->
                             IF id \notin saved THEN sessionFiles[id]
                             ELSE IF id \in expired
                                  THEN FilesAfterCleanup(sessions, sessionFiles, id)[id]
                                  ELSE FilesAfterSave(sessions, sessionFiles, id)[id]]
       /\ ended' = [id \in SessionIds |->
                      IF id \in expired
                      THEN EndedAfterCleanup(sessions, ended, id, "completed")[id]
                      ELSE ended[id]]
       /\ sessions' = [i \in 1..Len(SelectSeq(sessions, LAMBDA x : x.id \notin expired)) |->
                         LET x == SelectSeq(sessions, LAMBDA y : y.id \notin expired)[i]
                         IN [x EXCEPT !.status = LifecycleStatus(x, expired)]]
       /\ RecordAll(Monitored(LifecycleEvents(sessions, expired)))
       /\ UNCHANGED <<poolVars, schedVars, nextId, wiring, exited, startLog, warned, accountsLoaded,
                      tasks, summary, recorded, now, createResult>>

(***************************************************************************)
(* ShiftScheduler                                                          *)
(***************************************************************************)
NoShift == "undefined_fallback"
NoResult == [name |-> "", index |-> 0, hour |-> 0]
NoCommand == [kind |-> "", count |-> 0]
NoTarget == 0 - 1

\* the hardcoded default shifts of initialize(); capacity in hundredths
DefaultShifts ==
    << [name |-> "morning", start_hour |-> 6, end_hour |-> 12, capacity |-> 30, timezone |-> "UTC"],
       [name |-> "afternoon", start_hour |-> 12, end_hour |-> 18, capacity |-> 100, timezone |-> "UTC"],
       [name |-> "night", start_hour |-> 18, end_hour |-> 6, capacity |-> 50, timezone |-> "UTC"] >>

\* initialize() has not asked for the schedule
NotLoaded == ""

\* how getScheduleConfig() can end: it throws, it resolves to nothing (no
\* file), to a document without a shifts section, to one whose shifts
\* section is empty, or to one with shifts
ScheduleLoads == {"throws", "nothing", "no shifts", "empty shifts", "shifts"}

\* this.shiftsConfig after initialize() for a load that gave the policy
\* shifts: the defaults unless the document is there with a shifts section
LoadedShifts(load, shifts) ==
    IF load \in {"throws", "nothing", "no shifts"} THEN DefaultShifts
    ELSE IF load = "empty shifts" THEN <<>>
    ELSE shifts

\* scheduler state before initialize() has loaded a policy
SchedIdle ==
    /\ shiftsConfig = <<>>
    /\ scheduleYaml = NotLoaded
    /\ utcHour = 0
    /\ utcOffset = 0
    /\ maxConfig = 0
    /\ staleActive = 0
    /\ shiftResult = NoResult
    /\ allowedActive = NoTarget
    /\ lastCommand = NoCommand
    /\ schedStarted = FALSE
    /\ due = {}
    /\ reconciled = FALSE

\* currentTime.getHours(): the hour of the server's local time
LocalHour == (utcHour + utcOffset) % HoursPerDay

\* the value of currentHour when the find callback tests the i-th shift: it is
\* set to the UTC hour by every shift whose timezone is UTC and is never set back
CurrentHourAt(cfg, i) ==
    IF \E j \in 1..i : cfg[j].timezone = "UTC" THEN utcHour ELSE LocalHour

\* the window test with the closing bound included
ShiftMatchesInclusive(shift, hour) ==
    IF shift.start_hour <= shift.end_hour
    THEN hour >= shift.start_hour /\ hour <= shift.end_hour
    ELSE hour >= shift.start_hour \/ hour <= shift.end_hour

\* the window test of the find callback
ShiftMatches(shift, hour) ==
    IF shift.start_hour <= shift.end_hour
    THEN hour >= shift.start_hour /\ hour < shift.end_hour
    ELSE hour >= shift.start_hour \/ hour < shift.end_hour

\* the lookup returning the last matching shift instead of the first
FoundShiftLast(cfg) ==
    IF \E i \in 1..Len(cfg) : ShiftMatches(cfg[i], CurrentHourAt(cfg, i))
    THEN CHOOSE i \in 1..Len(cfg) :
            /\ ShiftMatches(cfg[i], CurrentHourAt(cfg, i))
            /\ \A j \in (i + 1)..Len(cfg) : ~ShiftMatches(cfg[j], CurrentHourAt(cfg, j))
    ELSE 0

\* index of the shift Object.keys(...).find returns, 0 when none matches
FoundShift(cfg) ==
    IF \E i \in 1..Len(cfg) : ShiftMatches(cfg[i], CurrentHourAt(cfg, i))
    THEN CHOOSE i \in 1..Len(cfg) :
            /\ ShiftMatches(cfg[i], CurrentHourAt(cfg, i))
            /\ \A j \in 1..(i - 1) : ~ShiftMatches(cfg[j], CurrentHourAt(cfg, j))
    ELSE 0

\* getCurrentShift(): the found shift, else 'night', else the first shift
GetCurrentShiftName(cfg) ==
    IF FoundShift(cfg) # 0 THEN cfg[FoundShift(cfg)].name
    ELSE IF \E i \in 1..Len(cfg) : cfg[i].name = "night" THEN "night"
    ELSE IF Len(cfg) > 0 THEN cfg[1].name
    ELSE NoShift

\* this.shiftsConfig[name]: index of the shift with that key, 0 when undefined
ShiftIndex(cfg, name) ==
    IF \E i \in 1..Len(cfg) : cfg[i].name = name
    THEN CHOOSE i \in 1..Len(cfg) : cfg[i].name = name
    ELSE 0

\* automationFullConfig?.maxConcurrentSessions || 50
MaxSessions == IF maxConfig = 0 THEN DefaultMaxSessions ELSE maxConfig

\* the target rounded up instead of down
AllowedForCeil(max, capacity) == (max * capacity + 99) \div 100

\* Math.floor(this.maxSessions * capacity), capacity in hundredths
AllowedFor(max, capacity) == (max * capacity) \div 100

\* getActiveSessionCount(): the target of the current shift, 0 without a shift
GetActiveSessionCount(cfg) ==
    LET i == ShiftIndex(cfg, GetCurrentShiftName(cfg))
    IN IF i = 0 THEN 0 ELSE AllowedFor(MaxSessions, cfg[i].capacity)

\* the command with starts and stops exchanged
CommandForSwapped(target, active) ==
    LET difference == target - active
    IN IF difference > 0 THEN [kind |-> "stop", count |-> difference]
       ELSE IF difference < 0 THEN [kind |-> "start", count |-> 0 - difference]
       ELSE [kind |-> "none", count |-> 0]

\* adjustCapacity(): the command given for a target and an active count
CommandFor(target, active) ==
    LET difference == target - active
    IN IF difference > 0 THEN [kind |-> "start", count |-> difference]
       ELSE IF difference < 0 THEN [kind |-> "stop", count |-> 0 - difference]
       ELSE [kind |-> "none", count |-> 0]

\* the triggers registered at the hour a shift ends
TriggersAtEnd(cfg, hour) == {i \in 1..Len(cfg) : cfg[i].end_hour = hour}

\* the shifts whose trigger ('0 <start_hour> * * *', timezone UTC unless
\* configured) fires when the clock reaches the hour
TriggersAt(cfg, hour) == {i \in 1..Len(cfg) : cfg[i].start_hour = hour}

\* the hours until the next trigger fires
HoursToNextTrigger(cfg) ==
    IF \E n \in 1..HoursPerDay : TriggersAt(cfg, (utcHour + n) % HoursPerDay) # {}
    THEN CHOOSE n \in 1..HoursPerDay :
            /\ TriggersAt(cfg, (utcHour + n) % HoursPerDay) # {}
            /\ \A m \in 1..(n - 1) : TriggersAt(cfg, (utcHour + m) % HoursPerDay) = {}
    ELSE 1

\* the clock moves on by n hours; the triggers of the hour it reaches become due
ClockAdvance(n) ==
    /\ due = {}
    /\ utcHour' = (utcHour + n) % HoursPerDay
    /\ UNCHANGED <<shiftsConfig, scheduleYaml, utcOffset, maxConfig, staleActive, schedStarted>>
    /\ shiftResult' = NoResult
    /\ allowedActive' = NoTarget
    /\ lastCommand' = NoCommand
    /\ due' = IF schedStarted THEN TriggersAt(shiftsConfig, utcHour') ELSE {}
    /\ reconciled' = (reconciled /\ GetCurrentShiftName(shiftsConfig)' = GetCurrentShiftName(shiftsConfig))
    /\ UNCHANGED <<poolVars, sessVars>>

\* initialize(): awaited once, before start()
Initialize(load, shifts) ==
    /\ scheduleYaml = NotLoaded
    /\ ~schedStarted
    /\ scheduleYaml' = load
    /\ shiftsConfig' = LoadedShifts(load, shifts)
    /\ UNCHANGED <<utcHour, utcOffset, maxConfig, staleActive, shiftResult, allowedActive,
                   lastCommand, schedStarted, due, reconciled, poolVars, sessVars>>

\* the clock moves on to the next hour
HourTick == ClockAdvance(1)

\* the clock moves on to the hour of the next trigger
NextTriggerHour == ClockAdvance(HoursToNextTrigger(shiftsConfig))

GetCurrentShift ==
    /\ shiftResult' = [name |-> GetCurrentShiftName(shiftsConfig),
                       index |-> FoundShift(shiftsConfig),
                       hour |-> IF FoundShift(shiftsConfig) = 0
                                THEN CurrentHourAt(shiftsConfig, Len(shiftsConfig))
                                ELSE CurrentHourAt(shiftsConfig, FoundShift(shiftsConfig))]
    /\ UNCHANGED <<shiftsConfig, scheduleYaml, utcHour, utcOffset, maxConfig, staleActive,
                   allowedActive, lastCommand, schedStarted, due, reconciled,
                   poolVars, sessVars>>

\* a client reads the target of the current shift
GetActiveSessionCountCall ==
    /\ allowedActive' = GetActiveSessionCount(shiftsConfig)
    /\ UNCHANGED <<shiftsConfig, scheduleYaml, utcHour, utcOffset, maxConfig, staleActive,
                   shiftResult, lastCommand, schedStarted, due, reconciled,
                   poolVars, sessVars>>

(***************************************************************************)
(* SpotifyAutomation                                                       *)
(***************************************************************************)
\* the ids stopSomeSessions stops: the first count stoppable live sessions
SessionsToStop(ss, count) ==
    LET stoppable == SelectSeq(ss, LAMBDA x : x.status \in StoppableStatuses)
    IN {stoppable[i].id : i \in {n \in 1..Len(stoppable) : n <= count}}

\* the events of stopSomeSessions(count): for each stopped session the
\* status_changed of updateSessionStatus and that of cleanupSession
StopEvents(ss, count) ==
    LET chosen == SelectSeq(ss, LAMBDA x : x.id \in SessionsToStop(ss, count))
    IN [i \in 1..(2 * Len(chosen)) |->
          LET x == chosen[(i + 1) \div 2]
          IN LogEntry(x.id, "status_changed",
                      [NoDetails EXCEPT !.oldStatus = IF i % 2 = 1 THEN x.status ELSE "stopped",
                                        !.newStatus = "stopped"])]

\* stopSomeSessions(count): each is set to 'stopped' and cleaned up as 'stopped'
StopSomeSessions(count) ==
    /\ RecordAll(Monitored(StopEvents(sessions, count)))
    /\ sessions' = SelectSeq(sessions, LAMBDA x : x.id \notin SessionsToStop(sessions, count))
    /\ persisted' = [id \in SessionIds |->
                       IF id \in SessionsToStop(sessions, count) THEN "stopped"
                       ELSE persisted[id]]
    /\ sessionFiles' = [id \in SessionIds |->
                          IF id \in SessionsToStop(sessions, count)
                          THEN FilesAfterCleanup(sessions, sessionFiles, id)[id]
                          ELSE sessionFiles[id]]
    /\ ended' = [id \in SessionIds |->
                   IF id \in SessionsToStop(sessions, count)
                   THEN EndedAfterCleanup(sessions, ended, id, "stopped")[id]
                   ELSE ended[id]]
    /\ UNCHANGED <<poolVars, nextId, tasks, summary, recorded, now, createResult>>

\* stopSomeSessions(count) called on the automation
StopSomeSessionsCall(count) ==
    /\ StopSomeSessions(count)
    /\ UNCHANGED <<schedVars, wiring, warned, accountsLoaded, exited, startLog>>

\* accountsConfig.accounts, by email
AccountsList == <<"a", "b">>

\* nextAccount of runMoreSessions: the first account no session of the list
\* holds in a state other than failed, completed or stopped (NoAccount: none).
\* The list is the one getAllSessions() gave when the call began; the sessions
\* runSession creates carry no account (createSession is handed the account
\* as its config, so config.account is undefined), so the sessions a call has
\* started since make no difference to it
NextAccount(ss) ==
    LET inUse(acc) == \E i \in 1..Len(ss) : /\ ss[i].account # NoAccount
                                            /\ ss[i].account = acc
                                            /\ ss[i].status \notin TerminalStatuses
        unused == SelectSeq(AccountsList, LAMBDA acc : ~inUse(acc))
    IN IF unused = <<>> THEN NoAccount ELSE Head(unused)

\* the log after logger.info(`Starting new session ... for account ...`)
StartLogged(account) == IF logSpy THEN Append(startLog, account) ELSE startLog

\* a runMoreSessions call has left its loop
TasksWithout(t) ==
    [i \in 1..(Len(tasks) - 1) |-> IF i < t THEN tasks[i] ELSE tasks[i + 1]]

\* runMoreSessions(count) up to its first stagger delay: without accounts it
\* returns at once; else runSession is called for the first start, whose
\* createSession runs to its end, and the other starts wait for the timer
RunMoreSessions(count, sameMs) ==
    IF accountsLoaded /\ NextAccount(sessions) # NoAccount
    THEN /\ CreateSessionBody(NoAccount, sameMs)
         /\ startLog' = StartLogged(NextAccount(sessions))
         /\ count > 1 => Len(tasks) < MaxTasks
         /\ tasks' = IF count > 1 THEN Append(tasks, count - 1) ELSE tasks
    ELSE UNCHANGED <<poolVars, sessions, persisted, nextId, tasks, sessionFiles, ended,
                     summary, recorded, now, createResult, monVars, startLog>>

\* runMoreSessions(count) called on the automation, the pool being initialised
RunMoreSessionsCall(count, sameMs) ==
    /\ poolStarted
    /\ RunMoreSessions(count, sameMs)
    /\ UNCHANGED <<schedVars, wiring, exited, warned, accountsLoaded>>

\* a stagger delay ends: the loop of a runMoreSessions call makes its next start
RunMoreStep(t, sameMs) ==
    /\ t \in 1..Len(tasks)
    /\ IF NextAccount(sessions) # NoAccount
       THEN /\ CreateSessionBody(NoAccount, sameMs)
            /\ startLog' = StartLogged(NextAccount(sessions))
            /\ tasks' = IF tasks[t] > 1 THEN [tasks EXCEPT ![t] = @ - 1] ELSE TasksWithout(t)
       ELSE /\ tasks' = TasksWithout(t)
            /\ UNCHANGED <<poolVars, sessions, persisted, nextId, sessionFiles, ended,
                           summary, recorded, now, createResult, monVars, startLog>>
    /\ UNCHANGED <<schedVars, wiring, exited, warned, accountsLoaded>>

\* adjustCapacity() with the calls it makes on the automation
AdjustCapacity(sameMs) ==
    LET targetSessions == GetActiveSessionCount(shiftsConfig)
        currentActiveSessions == OperationallyActiveSessions(sessions, persisted)
        command == CommandFor(targetSessions, currentActiveSessions)
    IN /\ allowedActive' = targetSessions
       /\ lastCommand' = command
       /\ reconciled' = TRUE
       /\ IF command.kind = "start" THEN RunMoreSessions(command.count, sameMs)
          ELSE IF command.kind = "stop"
          THEN StopSomeSessions(command.count) /\ UNCHANGED startLog
          ELSE UNCHANGED <<poolVars, sessions, persisted, nextId, tasks, sessionFiles,
                           ended, summary, recorded, now, createResult, monVars, startLog>>
       /\ UNCHANGED <<shiftsConfig, scheduleYaml, utcHour, utcOffset, maxConfig, staleActive,
                      shiftResult, wiring, exited, warned, accountsLoaded>>

\* a client calls adjustCapacity()
AdjustCapacityCall(sameMs) ==
    /\ AdjustCapacity(sameMs)
    /\ UNCHANGED <<schedStarted, due>>

\* start(): one trigger per shift, then the initial adjustment
SchedulerStart(sameMs) ==
    /\ poolStarted
    /\ ~schedStarted
    /\ Len(shiftsConfig) > 0
    /\ schedStarted' = TRUE
    /\ AdjustCapacity(sameMs)
    /\ UNCHANGED due

\* the cron callback of a shift
CronTrigger(i, sameMs) ==
    /\ i \in due
    /\ due' = due \ {i}
    /\ AdjustCapacity(sameMs)
    /\ UNCHANGED schedStarted

\* shutdown(), as the SIGINT and SIGTERM handlers registered after
\* initializeAndStart run it: stopSomeSessions is asked for as many stops as
\* the live map has sessions, then the process exits; the shift triggers are
\* not stopped, and no timer can run between the two steps
Shutdown ==
    /\ poolStarted
    /\ ~exited
    /\ exited' = TRUE
    /\ IF Len(sessions) > 0
       THEN StopSomeSessions(Len(sessions))
       ELSE UNCHANGED <<poolVars, sessions, persisted, nextId, tasks, sessionFiles, ended,
                        summary, recorded, now, createResult, monVars>>
    /\ UNCHANGED <<schedVars, wiring, warned, accountsLoaded, startLog>>

(***************************************************************************)
(* MonitoringSystem: the calls made on it                                  *)
(***************************************************************************)
\* recordSessionEvent(sessionId, event, data) called by a client
RecordSessionEvent(sessionId, event, data) ==
    /\ RecordAll(<<LogEntry(sessionId, event, data)>>)
    /\ UNCHANGED <<poolVars, schedVars, sessions, persisted, nextId, wiring, accountsLoaded,
                   tasks, sessionFiles, ended, summary, recorded, now, createResult, warned,
                   exited, startLog>>

\* getProxyStats()
GetProxyStats ==
    LET healthy == {i \in 1..Len(proxyPool) : heap[proxyPool[i]].healthy}
        SumAssigned[i \in 0..Len(proxyPool)] ==
            IF i = 0 THEN 0 ELSE SumAssigned[i - 1] + heap[proxyPool[i]].assignedSessions
    IN [totalProxies |-> Len(proxyPool),
        healthyProxies |-> Cardinality(healthy),
        unhealthyProxies |-> Len(proxyPool) - Cardinality(healthy),
        totalAssignedSessions |-> SumAssigned[Len(proxyPool)]]

\* a generateHealthReport call whose promise rejected
Rejected == [error |-> "ENOENT"]

\* generateHealthReport(): the summary of the session manager, the proxy
\* statistics, the current shift and the metrics under a fixed overall
\* status; getSessionStatsSummary reads the sessions directory without a
\* try, so the call rejects when the directory cannot be read
GenerateHealthReport(dirReadable) ==
    /\ ~writeFails => dirReadable
    /\ healthReport' =
          IF ~dirReadable THEN Rejected
          ELSE [overallStatus |-> "OK",
                currentShift |-> GetCurrentShiftName(shiftsConfig),
                metrics |-> metrics,
                sessionSummary |-> GetSessionStatsSummary(sessions, persisted, sessionFiles),
                proxySummary |-> GetProxyStats,
                componentHealth |-> [sessionManager |-> "OK", proxyManager |-> "OK",
                                     shiftScheduler |-> "OK"]]
    /\ UNCHANGED <<poolVars, schedVars, sessions, persisted, nextId, wiring, accountsLoaded,
                   tasks, sessionFiles, ended, summary, recorded, now, createResult, warned,
                   metrics, eventLog, alerts, exited, startLog>>

(***************************************************************************)
(* Specifications                                                          *)
(***************************************************************************)

\* the endpoint pool under any calls of its clients
PoolOnlyInit == PoolInit /\ SchedIdle /\ SessIdle

SpecPool == PoolOnlyInit /\ [][PoolNext]_vars

\* leases, reported failures and re-checks, without releases
HealthNext ==
    \/ \E passed \in SUBSET ProxyIds : InitializePool(passed)
    \/ \E sameMs \in BOOLEAN : SelectProxyForSession(sameMs)
    \/ \E p \in ProxyIds, sameMs \in BOOLEAN : HandleProxyFailure(p, sameMs)
    \/ \E o \in ObjIds, isHealthy \in BOOLEAN : RecheckFire(o, isHealthy)

SpecHealth == PoolOnlyInit /\ [][HealthNext]_vars

\* a new pool whose maxSessionsPerProxy is configured or left to its default
LeaseInit ==
    /\ heap = [o \in ObjIds |-> NoObj]
    /\ proxyPool = <<>>
    /\ timers = [o \in ObjIds |-> 0]
    /\ proxyConfig \in {0, MaxPerProxy}
    /\ poolStarted = FALSE
    /\ lastOp = "new"
    /\ reports = 0
    /\ evicted = {}
    /\ leased = None
    /\ fetched = <<>>
    /\ SchedIdle
    /\ SessIdle

\* leases and releases, without failure reports
LeaseNext ==
    \/ \E passed \in SUBSET ProxyIds : InitializePool(passed)
    \/ \E sameMs \in BOOLEAN : SelectProxyForSession(sameMs)
    \/ \E p \in ProxyIds : ReleaseProxy(p)

SpecLease == LeaseInit /\ [][LeaseNext]_vars

\* a pool that is initialised, and initialised again, from any fetched list,
\* with leases in between
FetchNext ==
    \/ \E fetchedProxies \in FetchedLists : InitializePoolFrom(fetchedProxies)
    \/ \E sameMs \in BOOLEAN : SelectProxyForSession(sameMs)

SpecFetch == LeaseInit /\ [][FetchNext]_vars

\* the shift lookup over the policies a schedule.yaml can define
GridHours == {6, 12, 18}
Timezones == {"UTC", ""}
UtcOffsets == {0, 8}
ShiftNameAt(i) == IF i = 1 THEN "morning" ELSE IF i = 2 THEN "afternoon"
                  ELSE IF i = 3 THEN "night" ELSE "late"
CapacityAt(i) == IF i = 1 THEN 30 ELSE IF i = 2 THEN 100 ELSE 50
Windows == [start_hour : GridHours, end_hour : GridHours, timezone : Timezones]
Policies ==
    {DefaultShifts} \cup
    UNION {{[i \in 1..n |-> [name |-> ShiftNameAt(i), start_hour |-> w[i].start_hour,
                             end_hour |-> w[i].end_hour, capacity |-> CapacityAt(i),
                             timezone |-> w[i].timezone]] : w \in [1..n -> Windows]}
           : n \in 1..MaxShifts}

ShiftInit ==
    /\ PoolInit
    /\ shiftsConfig \in Policies
    /\ scheduleYaml = "shifts"
    /\ utcHour \in 0..(HoursPerDay - 1)
    /\ utcOffset \in UtcOffsets
    /\ maxConfig = 0
    /\ staleActive = 0
    /\ shiftResult = NoResult
    /\ allowedActive = NoTarget
    /\ lastCommand = NoCommand
    /\ schedStarted = FALSE
    /\ due = {}
    /\ reconciled = FALSE
    /\ SessIdle

ShiftNext == HourTick \/ GetCurrentShift

SpecShift == ShiftInit /\ [][ShiftNext]_vars

\* the scheduler alone: no accounts are loaded and no session is live, the
\* active sessions are the files earlier runs have left
Capacities == {0, 30, 50, 100}
MaxSessionsConfigs == {0, 4, 100}
StaleCounts == {0, 1, 20, 50, 80}
CapacityPolicies ==
    {[i \in 1..3 |-> [DefaultShifts[i] EXCEPT !.capacity = c[i]]] : c \in [1..3 -> Capacities]}

ReconcileInit ==
    /\ PoolInit
    /\ SessIdle
    /\ shiftsConfig \in CapacityPolicies
    /\ scheduleYaml = "shifts"
    /\ utcHour \in {0, 6, 12, 18}
    /\ utcOffset = 0
    /\ maxConfig \in MaxSessionsConfigs
    /\ staleActive \in StaleCounts
    /\ shiftResult = NoResult
    /\ allowedActive = NoTarget
    /\ lastCommand = NoCommand
    /\ schedStarted = FALSE
    /\ due = {}
    /\ reconciled = FALSE

ReconcileNext ==
    \/ HourTick
    \/ GetActiveSessionCountCall
    \/ \E sameMs \in BOOLEAN : AdjustCapacityCall(sameMs)

SpecReconcile == ReconcileInit /\ [][ReconcileNext]_vars

\* the session manager under any calls of its clients
CallerStatuses == {"starting", "running", "paused", "completed", "failed", "stopped"}
FinalStatuses == {"completed", "failed", "stopped", "restarting"}

SessionInit ==
    /\ PoolInit
    /\ SchedIdle
    /\ sessions = <<>>
    /\ persisted = [id \in SessionIds |-> ""]
    /\ nextId = 1
    /\ behaviorGlobal \in BOOLEAN
    /\ accountsLoaded = FALSE
    /\ tasks = <<>>
    /\ RecIdle

SessionNext ==
    \/ \E passed \in SUBSET ProxyIds : InitializePool(passed)
    \/ \E account \in OneAccount, sameMs \in BOOLEAN : CreateSession(account, sameMs)
    \/ \E id \in SessionIds, status \in CallerStatuses : UpdateSessionStatus(id, status)
    \/ \E id \in SessionIds, finalStatus \in FinalStatuses : CleanupSession(id, finalStatus)
    \/ \E k \in 0..MaxCreated : ManageLifecycle(k)

SpecSession == SessionInit /\ [][SessionNext]_vars

\* sessions being created and ended over the pool, with and without a global
\* of the name behavior
CreateNext ==
    \/ \E passed \in SUBSET ProxyIds : InitializePool(passed)
    \/ \E account \in OneAccount, sameMs \in BOOLEAN : CreateSession(account, sameMs)
    \/ \E id \in SessionIds, finalStatus \in FinalStatuses : CleanupSession(id, finalStatus)

SpecCreate == SessionInit /\ [][CreateNext]_vars

\* the records of the sessions: statistics, errors, durations and files, for
\* a manager whose createSession stores its sessions; the last two ids that
\* generateSessionId gives out are followed
StatTypes == {"loginAttempts", "successfulStreams", "failedStreams", "totalPlaytime"}
NoStack == "null"
TrackError == [message |-> "Track failed", text |-> "Error: Track failed", stack |-> "at playTrack"]
ThrownString == [message |-> "", text |-> "timeout", stack |-> NoStack]
ErrorReports ==
    {[error |-> TrackError, currentActivity |-> "unknown activity"],
     [error |-> ThrownString, currentActivity |-> "login"]}
RecordIds == {id \in SessionIds : id >= MaxCreated - 1}

RecordInit ==
    /\ PoolInit
    /\ SchedIdle
    /\ sessions = <<>>
    /\ persisted = [id \in SessionIds |-> ""]
    /\ nextId = MaxCreated - 1
    /\ behaviorGlobal = TRUE
    /\ accountsLoaded = FALSE
    /\ tasks = <<>>
    /\ RecIdle

RecordNext ==
    \/ InitializePool(ProxyIds)
    \/ \E account \in OneAccount : CreateSession(account, FALSE)
    \/ \E id \in RecordIds, statType \in StatTypes : UpdateSessionStats(id, statType, 1)
    \/ \E id \in RecordIds, report \in ErrorReports, isCritical \in BOOLEAN :
          AddSessionError(id, report.error, report.currentActivity, isCritical)
    \/ \E id \in RecordIds, finalStatus \in FinalStatuses : CleanupSession(id, finalStatus)
    \/ Tick

SpecRecord == RecordInit /\ [][RecordNext]_vars

\* errors recorded on sessions that are created and set running
ErrorNext ==
    \/ InitializePool(ProxyIds)
    \/ \E account \in OneAccount : CreateSession(account, FALSE)
    \/ \E id \in RecordIds : UpdateSessionStatus(id, "running")
    \/ \E id \in RecordIds, report \in ErrorReports, isCritical \in BOOLEAN :
          AddSessionError(id, report.error, report.currentActivity, isCritical)
    \/ Tick

SpecError == RecordInit /\ [][ErrorNext]_vars

\* the session manager under a mocked logger, with or without a global of
\* the name behavior
LifeInit ==
    /\ PoolInit
    /\ SchedIdle
    /\ sessions = <<>>
    /\ persisted = [id \in SessionIds |-> ""]
    /\ nextId = 1
    /\ behaviorGlobal \in BOOLEAN
    /\ accountsLoaded = FALSE
    /\ tasks = <<>>
    /\ sessionFiles = [id \in SessionIds |-> NoFile]
    /\ ended = [id \in SessionIds |-> NoEnded]
    /\ summary = NoSummary
    /\ recorded = 0
    /\ now = 0
    /\ createResult = NoCall
    /\ slotLead = 0
    /\ writeFails = FALSE
    /\ logSpy = TRUE
    /\ warned = NoWarn
    /\ monitored = FALSE
    /\ MonIdle
    /\ exited = FALSE
    /\ startLog = <<>>

\* sessions created for either account and restarted
LifeNext ==
    \/ \E passed \in SUBSET ProxyIds : InitializePool(passed)
    \/ \E account \in Accounts : CreateSession(account, FALSE)
    \/ \E id \in SessionIds : RestartSession(id, FALSE)
    \/ Tick

SpecLife == LifeInit /\ [][LifeNext]_vars

\* the session manager under a mocked logger, with or without a scheduler
\* handing out slots
SlotInit ==
    /\ PoolInit
    /\ SchedIdle
    /\ sessions = <<>>
    /\ persisted = [id \in SessionIds |-> ""]
    /\ nextId = 1
    /\ behaviorGlobal = TRUE
    /\ accountsLoaded = FALSE
    /\ tasks = <<>>
    /\ sessionFiles = [id \in SessionIds |-> NoFile]
    /\ ended = [id \in SessionIds |-> NoEnded]
    /\ summary = NoSummary
    /\ recorded = 0
    /\ now = 0
    /\ createResult = NoCall
    /\ slotLead \in {0, 1}
    /\ writeFails = FALSE
    /\ logSpy = TRUE
    /\ warned = NoWarn
    /\ monitored = FALSE
    /\ MonIdle
    /\ exited = FALSE
    /\ startLog = <<>>

\* sessions created and stamped as time passes
HeartbeatNext ==
    \/ InitializePool(ProxyIds)
    \/ \E account \in OneAccount : CreateSession(account, FALSE)
    \/ \E id \in SessionIds : Heartbeat(id)
    \/ Tick

SpecHeartbeat == SlotInit /\ [][HeartbeatNext]_vars

\* sessions created and cleaned up, once or again, as time passes
CleanupNext ==
    \/ InitializePool(ProxyIds)
    \/ \E account \in OneAccount : CreateSession(account, FALSE)
    \/ \E id \in SessionIds, finalStatus \in {"completed", "failed"} :
          CleanupSession(id, finalStatus)
    \/ Tick

SpecCleanup == SlotInit /\ [][CleanupNext]_vars

\* the session manager over a sessions directory that fails and recovers
StoreInit ==
    /\ PoolInit
    /\ SchedIdle
    /\ sessions = <<>>
    /\ persisted = [id \in SessionIds |-> ""]
    /\ nextId = MaxCreated
    /\ behaviorGlobal = TRUE
    /\ accountsLoaded = FALSE
    /\ tasks = <<>>
    /\ RecIdle

StoreNext ==
    \/ InitializePool(ProxyIds)
    \/ \E account \in OneAccount : CreateSession(account, FALSE)
    \/ \E id \in RecordIds : UpdateSessionStatus(id, "running")
    \/ \E id \in RecordIds : AddSessionError(id, TrackError, "", FALSE)
    \/ \E id \in RecordIds : Heartbeat(id)
    \/ \E id \in RecordIds : CleanupSession(id, "completed")
    \/ StoreFault
    \/ Tick

SpecStore == StoreInit /\ [][StoreNext]_vars

\* the summary over any files and any live sessions of the followed ids; a
\* file differs from the live session of its id when a write failed or the
\* session object was changed through getSession
SummaryStatuses == {"initializing", "running", "idle", "unhealthy", "completed", "failed"}
StreamStats == [InitialStats EXCEPT !.successfulStreams = 2, !.failedStreams = 1,
                                    !.totalPlaytime = 3]
SummaryStats == {InitialStats, StreamStats}
LiveSets ==
    {SelectSeq([id \in SessionIds |->
                  IF id \in live
                  THEN [NewSession(id, NoAccount, None) EXCEPT
                            !.status = st[id], !.stats = stats[id]]
                  ELSE [id |-> None]],
               LAMBDA x : x.id # None) :
        live \in SUBSET RecordIds, st \in [RecordIds -> SummaryStatuses],
        stats \in [RecordIds -> SummaryStats]}

SummaryInit ==
    /\ PoolInit
    /\ SchedIdle
    /\ now = 0
    /\ slotLead = 0
    /\ sessions \in LiveSets
    /\ persisted \in [SessionIds -> SummaryStatuses \cup {""}]
    /\ \A id \in SessionIds \ RecordIds : persisted[id] = ""
    /\ sessionFiles \in [SessionIds -> {[NoFile EXCEPT !.stats = stats] : stats \in SummaryStats}]
    /\ \A id \in SessionIds : persisted[id] = "" => sessionFiles[id] = NoFile
    /\ nextId = MaxCreated + 1
    /\ behaviorGlobal = TRUE
    /\ accountsLoaded = FALSE
    /\ tasks = <<>>
    /\ ended = [id \in SessionIds |-> NoEnded]
    /\ summary = NoSummary
    /\ recorded = 0
    /\ createResult = NoCall
    /\ writeFails = FALSE
    /\ logSpy = FALSE
    /\ warned = NoWarn
    /\ monitored = FALSE
    /\ MonIdle
    /\ exited = FALSE
    /\ startLog = <<>>

SummaryNext == GetSessionStatsSummaryCall

SpecSummary == SummaryInit /\ [][SummaryNext]_vars

\* the whole program after initializeAndStart: pool, scheduler with the default
\* shifts, staggered starts and the periodic lifecycle pass
\* the scheduler from its construction on: the schedule is loaded, start()
\* registers the triggers and the clock runs; no accounts are loaded, the
\* active sessions are the files earlier runs have left
StartPolicies ==
    {DefaultShifts,
     SubSeq(DefaultShifts, 1, 2),
     SubSeq(DefaultShifts, 2, 3),
     <<[DefaultShifts[1] EXCEPT !.end_hour = 18], DefaultShifts[2]>>}

StartInit ==
    /\ PoolInit
    /\ SessIdle
    /\ shiftsConfig = <<>>
    /\ scheduleYaml = NotLoaded
    /\ utcHour \in {3, 15}
    /\ utcOffset = 0
    /\ maxConfig = 0
    /\ staleActive \in {0, 20}
    /\ shiftResult = NoResult
    /\ allowedActive = NoTarget
    /\ lastCommand = NoCommand
    /\ schedStarted = FALSE
    /\ due = {}
    /\ reconciled = FALSE

StartNext ==
    \/ InitializePool(ProxyIds)
    \/ \E load \in ScheduleLoads, shifts \in StartPolicies : Initialize(load, shifts)
    \/ SchedulerStart(FALSE)
    \/ \E i \in 1..Len(shiftsConfig) : CronTrigger(i, FALSE)
    \/ GetCurrentShift
    \/ HourTick

SpecStart == StartInit /\ [][StartNext]_vars

\* the automation on the default policy with the timers it sets up: the
\* triggers, the stagger delays and the lifecycle poll run whenever they can,
\* sessions fail at any time, and the hour may last arbitrarily long
DriftInit ==
    /\ PoolInit
    /\ shiftsConfig = DefaultShifts
    /\ scheduleYaml = "nothing"
    /\ utcHour = 12
    /\ utcOffset = 0
    /\ maxConfig = MaxCreated - 1
    /\ staleActive = 0
    /\ shiftResult = NoResult
    /\ allowedActive = NoTarget
    /\ lastCommand = NoCommand
    /\ schedStarted = FALSE
    /\ due = {}
    /\ reconciled = FALSE
    /\ sessions = <<>>
    /\ persisted = [id \in SessionIds |-> ""]
    /\ nextId = 1
    /\ behaviorGlobal = TRUE
    /\ accountsLoaded = TRUE
    /\ tasks = <<>>
    /\ RecIdle

\* what the program does on its own: the startup sequence and its timers
DriftTimers ==
    \/ InitializePool(ProxyIds)
    \/ SchedulerStart(FALSE)
    \/ \E i \in 1..Len(shiftsConfig) : CronTrigger(i, FALSE)
    \/ \E t \in 1..MaxTasks : RunMoreStep(t, FALSE)
    \/ ManageLifecycle(0)

DriftNext ==
    \/ DriftTimers
    \/ \E id \in SessionIds : CleanupSession(id, "failed")
    \/ NextTriggerHour

SpecDrift == DriftInit /\ [][DriftNext]_vars /\ WF_vars(DriftTimers)

\* the running automation, its sessions failing at any time, until a signal
\* shuts it down; after process.exit nothing runs
ShutdownNext ==
    \/ ~exited /\ DriftTimers
    \/ ~exited /\ \E id \in SessionIds : UpdateSessionStatus(id, "failed")
    \/ ~exited /\ NextTriggerHour
    \/ Shutdown

SpecShutdown == DriftInit /\ [][ShutdownNext]_vars

\* the automation's session manager, constructed with the monitoring system
MonitoredInit ==
    /\ PoolInit
    /\ SchedIdle
    /\ sessions = <<>>
    /\ persisted = [id \in SessionIds |-> ""]
    /\ nextId = 1
    /\ behaviorGlobal = TRUE
    /\ accountsLoaded = FALSE
    /\ tasks = <<>>
    /\ sessionFiles = [id \in SessionIds |-> NoFile]
    /\ ended = [id \in SessionIds |-> NoEnded]
    /\ summary = NoSummary
    /\ recorded = 0
    /\ now = 0
    /\ createResult = NoCall
    /\ slotLead = 0
    /\ writeFails = FALSE
    /\ logSpy = FALSE
    /\ warned = NoWarn
    /\ monitored = TRUE
    /\ MonIdle
    /\ exited = FALSE
    /\ startLog = <<>>

\* sessions created and ending completed or failed, their events recorded
RateNext ==
    \/ \E passed \in SUBSET ProxyIds : InitializePool(passed)
    \/ \E account \in OneAccount : CreateSession(account, FALSE)
    \/ \E id \in SessionIds : UpdateSessionStatus(id, "running")
    \/ \E id \in SessionIds, finalStatus \in {"completed", "failed"} :
          CleanupSession(id, finalStatus)
    \/ Tick

SpecRate == MonitoredInit /\ [][RateNext]_vars

\* the dashboard asks for the health report while sessions are created on a
\* pool of any health and the sessions directory fails and recovers
ReportNext ==
    \/ \E passed \in SUBSET ProxyIds : InitializePool(passed)
    \/ \E account \in OneAccount : CreateSession(account, FALSE)
    \/ StoreFault
    \/ \E dirReadable \in BOOLEAN : GenerateHealthReport(dirReadable)

SpecReport == MonitoredInit /\ [][ReportNext]_vars

\* sessions created, set running, restarted and stopped on request
StopNext ==
    \/ InitializePool(ProxyIds)
    \/ \E account \in OneAccount : CreateSession(account, FALSE)
    \/ \E id \in SessionIds, status \in {"running", "failed"} : UpdateSessionStatus(id, status)
    \/ \E id \in SessionIds : RestartSession(id, FALSE)
    \/ \E count \in 1..MaxCreated : StopSomeSessionsCall(count)

SpecStop == LifeInit /\ [][StopNext]_vars

\* the automation with its accounts loaded, under a mocked logger
AccountsInit ==
    /\ PoolInit
    /\ SchedIdle
    /\ sessions = <<>>
    /\ persisted = [id \in SessionIds |-> ""]
    /\ nextId = 1
    /\ behaviorGlobal = TRUE
    /\ accountsLoaded = TRUE
    /\ tasks = <<>>
    /\ sessionFiles = [id \in SessionIds |-> NoFile]
    /\ ended = [id \in SessionIds |-> NoEnded]
    /\ summary = NoSummary
    /\ recorded = 0
    /\ now = 0
    /\ createResult = NoCall
    /\ slotLead = 0
    /\ writeFails = FALSE
    /\ logSpy = TRUE
    /\ warned = NoWarn
    /\ monitored = FALSE
    /\ MonIdle
    /\ exited = FALSE
    /\ startLog = <<>>

\* start requests of any size and their stagger delays; sessions are set
\* running and no session ends
AccountsNext ==
    \/ InitializePool(ProxyIds)
    \/ \E count \in 1..MaxCreated, sameMs \in BOOLEAN : RunMoreSessionsCall(count, sameMs)
    \/ \E t \in 1..MaxTasks, sameMs \in BOOLEAN : RunMoreStep(t, sameMs)
    \/ \E id \in SessionIds : UpdateSessionStatus(id, "running")
    \/ Tick

SpecAccounts == AccountsInit /\ [][AccountsNext]_vars

\* the events and data clients record
ClientEvents == {"error", "completed", "failed", "heartbeat_pulse"}
EventData ==
    {[NoDetails EXCEPT !.errorType = t, !.isCritical = c] :
        t \in ErrorTypes \cup {NoErrorType}, c \in BOOLEAN}

MonitorNext ==
    \E event \in ClientEvents, data \in EventData : RecordSessionEvent(1, event, data)

SpecMonitor == PoolOnlyInit /\ [][MonitorNext]_vars

\* a pool that is initialised again while leases, releases, reported failures
\* and their re-checks go on
ReinitNext ==
    \/ \E fetchedProxies \in FetchedLists : InitializePoolFrom(fetchedProxies)
    \/ \E sameMs \in BOOLEAN : SelectProxyForSession(sameMs)
    \/ \E p \in ProxyIds : ReleaseProxy(p)
    \/ \E p \in ProxyIds, sameMs \in BOOLEAN : HandleProxyFailure(p, sameMs)
    \/ \E o \in ObjIds, isHealthy \in BOOLEAN : RecheckFire(o, isHealthy)

SpecReinit == PoolOnlyInit /\ [][ReinitNext]_vars

StartHours == {5, 12}
CapacityMaxConfigs == {2, 4}

CapacityInit ==
    /\ PoolInit
    /\ shiftsConfig = DefaultShifts
    /\ scheduleYaml = "nothing"
    /\ utcHour \in StartHours
    /\ utcOffset = 0
    /\ maxConfig \in CapacityMaxConfigs
    /\ staleActive = 0
    /\ shiftResult = NoResult
    /\ allowedActive = NoTarget
    /\ lastCommand = NoCommand
    /\ schedStarted = FALSE
    /\ due = {}
    /\ reconciled = FALSE
    /\ sessions = <<>>
    /\ persisted = [id \in SessionIds |-> ""]
    /\ nextId = 1
    /\ behaviorGlobal \in BOOLEAN
    /\ accountsLoaded = TRUE
    /\ tasks = <<>>
    /\ RecIdle

CapacityNext ==
    \/ \E passed \in SUBSET ProxyIds : InitializePool(passed)
    \/ \E sameMs \in BOOLEAN : SchedulerStart(sameMs)
    \/ \E i \in 1..Len(shiftsConfig), sameMs \in BOOLEAN : CronTrigger(i, sameMs)
    \/ \E sameMs \in BOOLEAN : AdjustCapacityCall(sameMs)
    \/ \E t \in 1..MaxTasks, sameMs \in BOOLEAN : RunMoreStep(t, sameMs)
    \/ \E k \in 0..MaxCreated : ManageLifecycle(k)
    \/ NextTriggerHour

SpecCapacity == CapacityInit /\ [][CapacityNext]_vars

(***************************************************************************)
(* Claims about the endpoint pool                                          *)
(***************************************************************************)

\* C1: after any sequence of lease, release and reportFailure calls (release and
\* reportFailure on an endpoint whose count is 0 included), every endpoint's
\* assigned count is at least 0 and at most perEndpointMax.
Thm_C1 ==
    \A i \in 1..Len(proxyPool) :
        /\ heap[proxyPool[i]].assignedSessions >= 0
        /\ heap[proxyPool[i]].assignedSessions <= MaxSessionsPerProxy

\* a release has just been made on an endpoint whose count is 0 while another is full
Wit_C1 ==
    /\ lastOp = "release"
    /\ \E i, j \in 1..Len(proxyPool) :
          /\ heap[proxyPool[i]].assignedSessions = 0
          /\ heap[proxyPool[i]].consecutiveFailures > 0
          /\ heap[proxyPool[j]].assignedSessions = MaxSessionsPerProxy

\* the healthy endpoints of the pool and the leases outstanding on them
HealthyEndpoints == {i \in 1..Len(proxyPool) : heap[proxyPool[i]].healthy}
OutstandingOnHealthy ==
    LET Sum[i \in 0..Len(proxyPool)] ==
            IF i = 0 THEN 0
            ELSE Sum[i - 1] + (IF heap[proxyPool[i]].healthy
                               THEN heap[proxyPool[i]].assignedSessions ELSE 0)
    IN Sum[Len(proxyPool)]

\* C9: with P healthy endpoints and perEndpointMax = K, a lease request made while
\* fewer than P x K leases are outstanding on them returns an endpoint, and a lease
\* request made when all P x K are outstanding returns the unavailable result and
\* leaves every endpoint's assigned count unchanged.
Thm_C9 ==
    [][(\E sameMs \in BOOLEAN : SelectProxyForSession(sameMs)) =>
        LET full == Cardinality(HealthyEndpoints) * MaxSessionsPerProxy
        IN /\ OutstandingOnHealthy < full =>
                /\ SelectReturn(proxyPool, heap) # None
                /\ lastOp' = "lease"
                /\ GetProxyStats'.totalAssignedSessions = GetProxyStats.totalAssignedSessions + 1
           /\ OutstandingOnHealthy >= full =>
                /\ SelectReturn(proxyPool, heap) = None
                /\ lastOp' = "leaseUnavailable"
                /\ \A o \in ObjIds : heap'[o].assignedSessions = heap[o].assignedSessions]_vars

\* every endpoint is healthy and full, and the lease just requested was refused
Wit_C9 ==
    /\ lastOp = "leaseUnavailable"
    /\ Len(proxyPool) = NumProxies
    /\ \A i \in 1..Len(proxyPool) :
          /\ heap[proxyPool[i]].healthy
          /\ heap[proxyPool[i]].assignedSessions = MaxSessionsPerProxy

\* C10: an endpoint whose consecutive-failure count has reached the eviction
\* threshold 3 and whose re-check finds it still unhealthy is no longer in the
\* pool, and stats() does not include it.
CE_C10 ==
    lastOp = "recheckRemove" =>
        GetProxyStats.totalProxies < NumProxies

(***************************************************************************)
(* Claims about the session lifecycle                                      *)
(***************************************************************************)

\* the status on record for a session id: the live session's, else the file's
StatusOf(id) ==
    IF LiveIndex(sessions, id) # 0 THEN sessions[LiveIndex(sessions, id)].status
    ELSE persisted[id]

\* C2: once a session's state is completed, failed or stopped, no operation
\* (status transition, error recording, cleanup, health check, lifecycle pass)
\* moves it to any other state.
CE_C2 ==
    [][\A id \in SessionIds :
          StatusOf(id) \in TerminalStatuses => StatusOf(id)' = StatusOf(id)]_vars

(***************************************************************************)
(* Claims about the capacity scheduler                                     *)
(***************************************************************************)

\* C3: once adjustCapacity has run in the current shift window, the number of
\* active sessions never exceeds the window's target, whatever the interleaving
\* of adjustments, staggered starts and sessions finishing.
CE_C3 ==
    reconciled =>
        OperationallyActiveSessions(sessions, persisted) <= GetActiveSessionCount(shiftsConfig)

\* the capacity of the shift getActiveSessionCount reads
CurrentCapacity ==
    shiftsConfig[ShiftIndex(shiftsConfig, GetCurrentShiftName(shiftsConfig))].capacity

\* C4: adjustCapacity gives exactly the command delta = target - active
\* determines: delta > 0 asks for delta starts and no stop, delta < 0 asks for
\* |delta| stops and no start, delta = 0 asks for nothing; 100 x 0.5 with 20
\* active asks for 30 starts, 100 x 0.3 with 80 active asks for 50 stops.
Thm_C4 ==
    [][(\E sameMs \in BOOLEAN : AdjustCapacityCall(sameMs)) =>
        LET active == OperationallyActiveSessions(sessions, persisted)
            delta == allowedActive' - active
        IN /\ delta > 0 => lastCommand' = [kind |-> "start", count |-> delta]
           /\ delta < 0 => lastCommand' = [kind |-> "stop", count |-> 0 - delta]
           /\ delta = 0 => lastCommand' = [kind |-> "none", count |-> 0]
           /\ (MaxSessions = 100 /\ CurrentCapacity = 50 /\ active = 20)
                 => lastCommand' = [kind |-> "start", count |-> 30]
           /\ (MaxSessions = 100 /\ CurrentCapacity = 30 /\ active = 80)
                 => lastCommand' = [kind |-> "stop", count |-> 50]]_vars

\* with 100 sessions at most, capacity 0.5 and 20 active, 30 starts were asked for
Wit_C4 ==
    /\ lastCommand = [kind |-> "start", count |-> 30]
    /\ MaxSessions = 100
    /\ CurrentCapacity = 50
    /\ staleActive = 20

\* C5: a second adjustCapacity call made right after the first, with no change
\* of the session count in between, asks for no start and no stop.
CE_C5 ==
    [][(\E sameMs \in BOOLEAN : AdjustCapacityCall(sameMs)) =>
        CommandFor(GetActiveSessionCount(shiftsConfig),
                   OperationallyActiveSessions(sessions, persisted))'.kind = "none"]_vars

\* the hours of a window, counted out: start..end-1, through midnight when it wraps
WindowHours(shift) ==
    IF shift.start_hour <= shift.end_hour
    THEN shift.start_hour..(shift.end_hour - 1)
    ELSE (shift.start_hour..(HoursPerDay - 1)) \cup (0..(shift.end_hour - 1))

\* the shifts whose window contains the hour
Containing(cfg, hour) == {i \in 1..Len(cfg) : hour \in WindowHours(cfg[i])}

\* every shift is tested against the same hour
SameHour(cfg) == \A i \in 1..Len(cfg) : CurrentHourAt(cfg, i) = CurrentHourAt(cfg, 1)

Covers(cfg) == \A hour \in 0..(HoursPerDay - 1) : Containing(cfg, hour) # {}

Partitions(cfg) == \A hour \in 0..(HoursPerDay - 1) : Cardinality(Containing(cfg, hour)) = 1

Thm_C7 ==
    /\ \A i \in 1..Len(shiftsConfig) :
          /\ {h \in 0..(HoursPerDay - 1) : ShiftMatches(shiftsConfig[i], h)}
                = WindowHours(shiftsConfig[i])
          /\ (shiftsConfig[i].start_hour = 18 /\ shiftsConfig[i].end_hour = 6) =>
                {h \in 0..(HoursPerDay - 1) : ShiftMatches(shiftsConfig[i], h)}
                   = {18, 19, 20, 21, 22, 23, 0, 1, 2, 3, 4, 5}
    /\ shiftResult # NoResult =>
          /\ shiftResult.index # 0 =>
                shiftResult.hour \in WindowHours(shiftsConfig[shiftResult.index])
          /\ shiftResult.index = 0 =>
                \A i \in 1..Len(shiftsConfig) :
                    CurrentHourAt(shiftsConfig, i) \notin WindowHours(shiftsConfig[i])

\* the lookup has matched the window 18-06 at hour 5, after midnight
Wit_C7 ==
    /\ shiftResult.index # 0
    /\ shiftsConfig[shiftResult.index].start_hour = 18
    /\ shiftsConfig[shiftResult.index].end_hour = 6
    /\ shiftResult.hour = 5

LeaseHolders == {i \in 1..Len(sessions) : sessions[i].proxy # None}

\* C11: when a session leaves the live map (cleanup as completed, failed,
\* stopped or restarting) the assigned count of the endpoint it held is one
\* lower afterwards, and the assigned counts of the pool add up to the number
\* of live sessions holding a lease.
CE_C11 ==
    [][/\ \A i \in 1..Len(sessions) :
            (LiveIndex(sessions', sessions[i].id) = 0 /\ sessions[i].proxy # None) =>
                LET o == PoolGet(proxyPool, heap, sessions[i].proxy)
                IN heap'[o].assignedSessions = heap[o].assignedSessions - 1
       /\ GetProxyStats'.totalAssignedSessions = Cardinality(LeaseHolders')]_vars

\* loadSessionData(id): the parsed file, null (NoLoaded) when there is none
NoLoaded == [status |-> "", duration |-> NoDuration, stats |-> InitialStats, missing |-> TRUE]
LoadSessionData(id) ==
    IF persisted[id] = "" THEN NoLoaded
    ELSE [status |-> persisted[id], duration |-> sessionFiles[id].duration,
          stats |-> sessionFiles[id].stats, missing |-> FALSE]

\* an error list read back from a file against the list of a session object:
\* the same entries in the same order, each timestamp the ISO string of the
\* instant the object holds as a Date
SameErrors(loaded, errors) ==
    /\ Len(loaded) = Len(errors)
    /\ \A i \in 1..Len(errors) :
          /\ loaded[i].message = errors[i].message
          /\ loaded[i].stack = errors[i].stack
          /\ loaded[i].activity = errors[i].activity
          /\ ParseDate(loaded[i].timestamp) = errors[i].timestamp

TrackedIds == {id \in SessionIds : persisted[id] # "" \/ LiveIndex(sessions, id) # 0}

\* the record a tracked id is counted with: the live session when there is one
CountedRecord(id) ==
    IF LiveIndex(sessions, id) # 0
    THEN [status |-> sessions[LiveIndex(sessions, id)].status,
          stats |-> sessions[LiveIndex(sessions, id)].stats]
    ELSE [status |-> persisted[id], stats |-> sessionFiles[id].stats]

RECURSIVE SumStat(_, _)
SumStat(ids, statType) ==
    IF ids = {} THEN 0
    ELSE LET id == CHOOSE x \in ids : TRUE
         IN CountedRecord(id).stats[statType] + SumStat(ids \ {id}, statType)

CountedWith(status) == Cardinality({id \in TrackedIds : CountedRecord(id).status = status})

\* C13: the summary counts every session id once: the total is the number of
\* distinct ids in the files and the live map, an id in both is counted with
\* the status and statistics of the live session, and the counts per status
\* and the summed statistics are those of that merged set.
Thm_C13 ==
    summary # NoSummary =>
        /\ summary.totalTrackedSessions = Cardinality(TrackedIds)
        /\ summary.initializingSessions = CountedWith("initializing")
        /\ summary.runningSessions = CountedWith("running")
        /\ summary.idleSessions = CountedWith("idle")
        /\ summary.pausedSessions = CountedWith("paused")
        /\ summary.stoppedSessions = CountedWith("stopped")
        /\ summary.failedSessions = CountedWith("failed")
        /\ summary.completedSessions = CountedWith("completed")
        /\ summary.restartingSessions = CountedWith("restarting")
        /\ summary.unhealthySessions = CountedWith("unhealthy")
        /\ summary.totalSuccessfulStreams = SumStat(TrackedIds, "successfulStreams")
        /\ summary.totalFailedStreams = SumStat(TrackedIds, "failedStreams")
        /\ summary.totalPlaytime = SumStat(TrackedIds, "totalPlaytime")

\* the summary was read with one session both in a file (completed, with
\* streams) and live (idle, without), and another only in a file
Wit_C13 ==
    /\ summary # NoSummary
    /\ summary.totalTrackedSessions = 2
    /\ \E id \in SessionIds :
          /\ LiveIndex(sessions, id) # 0
          /\ sessions[LiveIndex(sessions, id)].status = "idle"
          /\ sessions[LiveIndex(sessions, id)].stats = InitialStats
          /\ persisted[id] = "completed"
          /\ sessionFiles[id].stats = StreamStats
    /\ Len(sessions) = 1

\* C14: the count of operationally active sessions that adjustCapacity reads
\* from the summary counts exactly the sessions whose status is not completed,
\* failed or stopped: initializing, running, idle, paused, unhealthy and
\* restarting sessions are counted, terminal ones are not.
CE_C14 ==
    summary # NoSummary =>
        summary.operationallyActiveSessions =
            Cardinality({id \in TrackedIds : CountedRecord(id).status \notin TerminalStatuses})

\* no endpoint of the pool is healthy with an assigned count below the maximum
NoEndpointAvailable ==
    \A i \in 1..Len(proxyPool) :
        \/ ~heap[proxyPool[i]].healthy
        \/ heap[proxyPool[i]].assignedSessions >= MaxSessionsPerProxy

\* C15: when the pool has no healthy endpoint below the maximum (it is empty,
\* all unhealthy or all full), createSession ends by returning null instead of
\* throwing, adds no session to the live map, writes no session file and leaves
\* every endpoint's assigned count unchanged.
Thm_C15 ==
    [][((\E account \in OneAccount, sameMs \in BOOLEAN : CreateSession(account, sameMs)) /\ NoEndpointAvailable) =>
        /\ createResult'.kind = "null"
        /\ sessions' = sessions
        /\ persisted' = persisted
        /\ sessionFiles' = sessionFiles
        /\ \A o \in ObjIds : heap'[o].assignedSessions = heap[o].assignedSessions]_vars

\* createSession has returned null with two sessions live: one endpoint is
\* unhealthy and the other one is full
Wit_C15 ==
    /\ createResult.kind = "null"
    /\ lastOp = "leaseUnavailable"
    /\ Len(sessions) = 2
    /\ \E i, j \in 1..Len(proxyPool) :
          /\ ~heap[proxyPool[i]].healthy
          /\ heap[proxyPool[j]].healthy
          /\ heap[proxyPool[j]].assignedSessions = MaxSessionsPerProxy


(***************************************************************************)
(* Claims about re-checks, leases and pool initialisation                  *)
(***************************************************************************)

\* what the pool holds under an id: the record of the object, or NoObj
EndpointRecord(pool, h, id) ==
    IF PoolGet(pool, h, id) = None THEN NoObj ELSE h[PoolGet(pool, h, id)]

\* a pending re-check of object o fires in this step
RecheckFires(o) == timers'[o] = timers[o] - 1

\* C16: a re-check that fires for an endpoint that was evicted before is a
\* no-op: after it the endpoint is still absent from the pool and the record
\* of no other endpoint has changed.
CE_C16 ==
    [][\A o \in ObjIds :
        (RecheckFires(o) /\ heap[o].id \in evicted) =>
            /\ PoolGet(proxyPool', heap', heap[o].id) = None
            /\ \A q \in ProxyIds \ {heap[o].id} :
                  EndpointRecord(proxyPool', heap', q) = EndpointRecord(proxyPool, heap, q)]_vars


\* a lease call made in this step returned the endpoint p
LeaseReturns(p) == lastOp' \in {"lease", "reportFailure"} /\ leased' = p

Eligible == {o \in Range(proxyPool) :
                heap[o].healthy /\ heap[o].assignedSessions < MaxSessionsPerProxy}

\* the eligible objects with the minimum assigned count
LeastAssigned == {o \in Eligible :
                     \A q \in Eligible : heap[o].assignedSessions <= heap[q].assignedSessions}

Complete(fetchedProxies) ==
    {i \in 1..Len(fetchedProxies) : fetchedProxies[i].hostPort}

\* the last complete candidate of the list with the given id
LastWithId(fetchedProxies, id) ==
    CHOOSE i \in Complete(fetchedProxies) :
        /\ fetchedProxies[i].id = id
        /\ \A j \in Complete(fetchedProxies) : fetchedProxies[j].id = id => j <= i

\* the ids the pool has entries for
PoolIds == {heap[proxyPool[i]].id : i \in 1..Len(proxyPool)}

Thm_C20 ==
    [][\A id \in RecordIds, report \in ErrorReports, isCritical \in BOOLEAN :
        (LiveIndex(sessions, id) # 0
            /\ AddSessionError(id, report.error, report.currentActivity, isCritical)) =>
            LET i == LiveIndex(sessions, id)
                before == sessions[i].stats.errors
                after == sessions'[i].stats.errors
            IN /\ Len(sessions') = Len(sessions)
               /\ sessions'[i].id = id
               /\ Len(after) = Len(before) + 1
               /\ SubSeq(after, 1, Len(before)) = before
               /\ after[Len(after)].message =
                     (IF report.error.message # "" THEN report.error.message
                      ELSE report.error.text)
               /\ after[Len(after)].activity = report.currentActivity
               /\ sessions'[i].status = (IF isCritical THEN "failed" ELSE sessions[i].status)
               /\ \A j \in 1..Len(sessions) : j # i => sessions'[j] = sessions[j]]_vars

\* a live session has two errors on record, from different activities and in
\* the order they were recorded, and the second, a critical one, has set it
\* to failed while another live session is untouched
Wit_C20 ==
    \E i, j \in 1..Len(sessions) :
        /\ Len(sessions[i].stats.errors) = 2
        /\ sessions[i].stats.errors[1].activity = "unknown activity"
        /\ sessions[i].stats.errors[1].message = "Track failed"
        /\ sessions[i].stats.errors[2].activity = "login"
        /\ sessions[i].stats.errors[2].message = "timeout"
        /\ sessions[i].status = "failed"
        /\ sessions[j].stats.errors = <<>>
        /\ sessions[j].status = "initializing"

(***************************************************************************)
(* Claims about restart, cleanup, heartbeat and creation                   *)
(***************************************************************************)

\* the ids of the sessions in a live map
LiveIds(ss) == {ss[i].id : i \in 1..Len(ss)}

\* C21: restartSession(id) of a live session removes id from the live map and
\* leaves its file in state 'restarting', and the live map then holds exactly
\* one session it did not hold before, under an id never used before and
\* bound to the account of the restarted session; restartSession of an id
\* that is not live creates no session and changes no session, file or lease.
CE_C21 ==
    [][\A id \in SessionIds :
        RestartSession(id, FALSE) =>
            IF id \in LiveIds(sessions)
            THEN /\ id \notin LiveIds(sessions')
                 /\ persisted'[id] = "restarting"
                 /\ \E new \in SessionIds :
                       /\ LiveIds(sessions') = (LiveIds(sessions) \ {id}) \cup {new}
                       /\ new \notin LiveIds(sessions)
                       /\ persisted[new] = ""
                       /\ sessions'[LiveIndex(sessions', new)].account =
                             sessions[LiveIndex(sessions, id)].account
            ELSE UNCHANGED <<sessions, persisted, sessionFiles, ended, nextId, poolVars>>]_vars

\* a cleanupSession call finds its id missing from the live map and warns
CleanupOfUnknown ==
    /\ warned'.op = "cleanupSession"
    /\ warned' # warned
    /\ warned'.id \notin LiveIds(sessions)

\* C22: cleanupSession with an id that is not in the live map changes neither
\* the live map nor any session file nor any lease, so a second cleanup of a
\* session, whatever final status it names, leaves the final status, the
\* duration and the stats recorded by the first as they are.
Thm_C22 ==
    [][CleanupOfUnknown =>
            UNCHANGED <<sessions, persisted, sessionFiles, ended, nextId, createResult,
                        poolVars>>]_vars

\* a session cleaned up as one final status has been cleaned up again as
\* another and its file still holds the first
Wit_C22 ==
    /\ warned.op = "cleanupSession"
    /\ ended[warned.id].status \in FinalStatuses \ {warned.arg}
    /\ persisted[warned.id] = ended[warned.id].status
    /\ sessionFiles[warned.id].duration = ended[warned.id].duration

\* C23: when cleanupSession takes a session out of the live map, the file it
\* leaves holds the final status and a duration that is the time from the
\* session's creation to the cleanup and is not negative, whatever slot the
\* session's schedule was given.
CE_C23 ==
    [][\A id \in LiveIds(sessions) \ LiveIds(sessions') :
        /\ persisted'[id] \in FinalStatuses
        /\ sessionFiles'[id].duration = now - sessions[LiveIndex(sessions, id)].createdAt.ticks
        /\ sessionFiles'[id].duration >= 0]_vars

\* C24: heartbeat(id) for a live session sets that session's lastHeartbeat to
\* the time of the call and changes no other field of it (status, stats,
\* errors, proxy, account, start), no other session and no lease; for an id
\* that is not live it changes no session, file or lease and only the
\* warning is logged.
Thm_C24 ==
    [][\A id \in SessionIds :
        Heartbeat(id) =>
            /\ UNCHANGED <<poolVars, nextId, ended, createResult>>
            /\ IF id \in LiveIds(sessions)
               THEN /\ Len(sessions') = Len(sessions)
                    /\ \A i \in 1..Len(sessions) :
                          IF sessions[i].id = id
                          THEN /\ sessions'[i].lastHeartbeat = Now
                               /\ sessions'[i] = [sessions[i] EXCEPT !.lastHeartbeat = Now]
                          ELSE sessions'[i] = sessions[i]
                    /\ warned' = NoWarn
               ELSE /\ UNCHANGED <<sessions, persisted, sessionFiles>>
                    /\ warned' = [op |-> "heartbeat", id |-> id, arg |-> ""]]_vars

\* a heartbeat has stamped one of two live sessions after its creation, and
\* the last heartbeat was for an id that is not live
Wit_C24 ==
    /\ Len(sessions) > 1
    /\ \E i \in 1..Len(sessions) :
          sessions[i].lastHeartbeat.ticks > sessions[i].createdAt.ticks
    /\ warned.op = "heartbeat"

Thm_C26 ==
    [][\A id \in LiveIds(sessions) :
        LET i == LiveIndex(sessions, id)
            j == LiveIndex(sessions', id)
        IN writeFails =>
            /\ UpdateSessionStatus(id, "running") =>
                  /\ sessions'[j].status = "running"
                  /\ UNCHANGED <<persisted, sessionFiles>>
            /\ AddSessionError(id, TrackError, "", FALSE) =>
                  /\ Len(sessions'[j].stats.errors) = Len(sessions[i].stats.errors) + 1
                  /\ UNCHANGED <<persisted, sessionFiles>>
            /\ Heartbeat(id) =>
                  /\ sessions'[j].lastHeartbeat = Now
                  /\ UNCHANGED <<persisted, sessionFiles>>
            /\ CleanupSession(id, "completed") =>
                  /\ j = 0
                  /\ ended'[id].status = "completed"
                  /\ ended'[id].stats = sessions[i].stats
                  /\ UNCHANGED <<persisted, sessionFiles>>]_vars

\* a session set running and given an error while the writes failed has
\* been cleaned up while they failed: its file still says 'initializing'
\* and holds no error
Wit_C26 ==
    /\ writeFails
    /\ \E id \in RecordIds :
          /\ id \notin LiveIds(sessions)
          /\ ended[id].status = "completed"
          /\ ended[id].stats.errors # <<>>
          /\ persisted[id] = "initializing"
          /\ sessionFiles[id].stats.errors = <<>>

(***************************************************************************)
(* Claims about the scheduler's start                                      *)
(***************************************************************************)

\* the loads that give initialize() no shift: a load that throws, one that
\* resolves to nothing and one whose shifts are missing or empty
EmptyLoads == {"throws", "nothing", "no shifts", "empty shifts"}

\* C27: after initialize(), when the load of the schedule threw, gave
\* nothing or gave no shift, the scheduler holds the default policy (6-12 at
\* 30%, 12-18 at 100%, 18-6 at 50%) and start() registers the triggers.
CE_C27 ==
    scheduleYaml \in EmptyLoads =>
        /\ shiftsConfig = DefaultShifts
        /\ (poolStarted /\ ~schedStarted) => ENABLED SchedulerStart(FALSE)

\* the names of the configured shifts
ShiftNames(cfg) == {cfg[i].name : i \in 1..Len(cfg)}

\* C28: once initialize() has run, a getCurrentShift() call at an hour that
\* no configured window contains returns 'night' when a shift of that name
\* is configured and the first configured shift otherwise; the name is the
\* name of a configured shift, so the allowed count is that shift's.
CE_C28 ==
    [][(GetCurrentShift /\ scheduleYaml # NotLoaded /\ FoundShift(shiftsConfig) = 0) =>
        /\ shiftResult'.name \in ShiftNames(shiftsConfig)
        /\ shiftResult'.name =
              IF "night" \in ShiftNames(shiftsConfig) THEN "night" ELSE shiftsConfig[1].name
        /\ GetActiveSessionCount(shiftsConfig) =
              AllowedFor(MaxSessions,
                         shiftsConfig[ShiftIndex(shiftsConfig, shiftResult'.name)].capacity)]_vars

\* the target adjustCapacity works towards when the shift of the given
\* capacity is the one it reconciles for
TargetOf(capacity) == AllowedFor(MaxSessions, capacity)

\* start() has registered one trigger per configured shift: the triggers at
\* their firing time after a step of the clock are those of the shifts that
\* start at the hour reached
OneTriggerPerShift ==
    (schedStarted /\ utcHour' # utcHour) =>
        due' = {i \in 1..Len(shiftsConfig) : shiftsConfig[i].start_hour = utcHour'}

\* start() registers the triggers and reconciles once, for the shift
\* getCurrentShift() returns at the start time
ReconcileAtStart ==
    SchedulerStart(FALSE) =>
        /\ shiftsConfig # <<>>
        /\ schedStarted'
        /\ allowedActive' =
              TargetOf(shiftsConfig[ShiftIndex(shiftsConfig,
                                               GetCurrentShiftName(shiftsConfig))].capacity)
        /\ lastCommand' = CommandFor(allowedActive', staleActive)

Deficit ==
    /\ schedStarted
    /\ due = {}
    /\ tasks = <<>>
    /\ nextId <= MaxCreated
    /\ OperationallyActiveSessions(sessions, persisted) < GetActiveSessionCount(shiftsConfig)

\* C30: between two shift triggers reconcile runs periodically: when a
\* session has ended inside a window and fewer sessions are active than the
\* window allows, the missing starts are requested without the next
\* trigger having to fire, however long the hour lasts.
CE_C30 == Deficit ~> ~Deficit

(***************************************************************************)
(* Claims about shutdown                                                   *)
(***************************************************************************)

\* the live sessions whose status is not a terminal one
LiveNonTerminal == {i \in 1..Len(sessions) : sessions[i].status \notin TerminalStatuses}

\* C31: shutdown drains: once shutdown has begun no session is started, and when
\* it completes no session in a non-terminal state is left in the live map.
CE_C31 ==
    /\ [](exited => LiveNonTerminal = {})
    /\ [][exited => sessions' = sessions /\ nextId' = nextId]_vars

(***************************************************************************)
(* Claims about the monitoring system                                      *)
(***************************************************************************)

\* C32: recordSessionEvent(sessionId, event, data) raises the counter of the
\* event by exactly one and appends one entry to the event log, the earlier
\* entries staying as they were; the alert manager is triggered, once, exactly
\* when the event is a critical one or data.isCritical is set.
Thm_C32 ==
    [][\A event \in ClientEvents, data \in EventData :
          RecordSessionEvent(1, event, data) =>
              /\ GetMetric(metrics', MetricName(event))
                    = GetMetric(metrics, MetricName(event)) + 1
              /\ eventLog' = Append(eventLog, LogEntry(1, event, data))
              /\ IF event \in CriticalEvents \/ data.isCritical
                 THEN alerts' = Append(alerts, LogEntry(1, event, data))
                 ELSE alerts' = alerts]_vars

\* events have been recorded with and without an alert, one of the alerts
\* for an event that is critical only by its data
Wit_C32 ==
    /\ Len(alerts) > 0
    /\ Len(alerts) < Len(eventLog)
    /\ \E i \in 1..Len(alerts) : alerts[i].event \notin CriticalEvents
    /\ \E i \in 1..Len(alerts) : alerts[i].event \in CriticalEvents

\* the sessions that have ended with the given status
EndedWith(status) == {id \in SessionIds : ended[id].status = status}

\* C33: the success rate equals the number of sessions that have ended
\* completed over the number that have ended completed or failed, as the
\* lifecycle events recorded so far tell, and is 1 while no session has ended
\* in either state.
CE_C33 ==
    LET completed == Cardinality(EndedWith("completed"))
        failed == Cardinality(EndedWith("failed"))
    IN IF completed + failed = 0 THEN GetSuccessRate(metrics) = 100
       ELSE GetSuccessRate(metrics) * (completed + failed) = 100 * completed

\* C34: the health report call returns a snapshot in every state, an empty or
\* all-unhealthy pool and an unavailable sessions directory included, and the
\* overall status of the snapshot is not OK when a subcomponent is degraded.
CE_C34 ==
    healthReport # NoReport =>
        /\ healthReport # Rejected
        /\ healthReport.proxySummary.healthyProxies = 0 => healthReport.overallStatus # "OK"

(***************************************************************************)
(* Claims about the lifecycle pass, stops and starts                       *)
(***************************************************************************)

\* the live sessions a step moves to 'unhealthy', by their place before it
MovedToUnhealthy ==
    {i \in 1..Len(sessions) :
        /\ sessions[i].status # "unhealthy"
        /\ \E j \in 1..Len(sessions') :
              sessions'[j].id = sessions[i].id /\ sessions'[j].status = "unhealthy"}

\* C35: the lifecycle pass moves a session to unhealthy only from an active
\* state: never one that is completed, failed or stopped, and always one that
\* is initializing, running, idle or paused and fails the health check.
CE_C35 ==
    [][(\E k \in 0..MaxCreated : ManageLifecycle(k)) =>
          \A i \in 1..Len(sessions) :
              /\ i \in MovedToUnhealthy => sessions[i].status \notin TerminalStatuses
              /\ (sessions[i].status \in StoppableStatuses /\ ~IsHealthy(sessions[i])
                    /\ \E j \in 1..Len(sessions') : sessions'[j].id = sessions[i].id)
                 => i \in MovedToUnhealthy]_vars

\* the smaller of two numbers
Min(a, b) == IF a < b THEN a ELSE b

\* the ids a step removes from the live map
Removed == LiveIds(sessions) \ LiveIds(sessions')

\* the live sessions stopSomeSessions chooses from, oldest first
StoppableIds == SelectSeq(sessions, LAMBDA x : x.status \in StoppableStatuses)

\* C36: a stop request for n sessions stops exactly min(n, number of
\* operationally active sessions) sessions, the oldest first; each ends in
\* state stopped and leaves the live map, no other session is changed, and
\* the operationally active count drops by the number stopped.
CE_C36 ==
    [][\A count \in 1..MaxCreated :
          StopSomeSessionsCall(count) =>
              /\ Cardinality(Removed)
                    = Min(count, OperationallyActiveSessions(sessions, persisted))
              /\ Removed = {StoppableIds[i].id : i \in 1..Cardinality(Removed)}
              /\ \A id \in Removed : ended'[id].status = "stopped" /\ persisted'[id] = "stopped"
              /\ sessions' = SelectSeq(sessions, LAMBDA x : x.id \notin Removed)
              /\ \A id \in SessionIds \ Removed :
                    ended'[id] = ended[id] /\ persisted'[id] = persisted[id]
              /\ OperationallyActiveSessions(sessions', persisted')
                    = OperationallyActiveSessions(sessions, persisted) - Cardinality(Removed)]_vars

\* C37: no two sessions in non-terminal states are bound to the same account:
\* the sessions a start request starts get pairwise distinct accounts, none of
\* them the account of an active session, and fewer sessions are started when
\* the unused accounts run out.
CE_C37 ==
    /\ Len(startLog) = Len(sessions)
    /\ \A i, j \in 1..Len(sessions) :
          (/\ i # j
           /\ sessions[i].status \notin TerminalStatuses
           /\ sessions[j].status \notin TerminalStatuses) => startLog[i] # startLog[j]

\* the sessions of the live map that are in an active state
LiveActive == {i \in 1..Len(sessions) : sessions[i].status \in ActiveStatuses}

\* C38: the operationally active count of the summary is the number of
\* sessions of the live map that are in an active state; a session that
\* cleanup removed, one cleaned up as restarting included, is never counted.
CE_C38 ==
    GetSessionStatsSummary(sessions, persisted, sessionFiles).operationallyActiveSessions
        = Cardinality(LiveActive)

(***************************************************************************)
(* Claims about the assigned counts under re-checks and reported failures  *)
(***************************************************************************)

\* the assigned count the pool holds for the endpoint id
AssignedOf(pool, h, id) == EndpointRecord(pool, h, id).assignedSessions

\* C39: the firing of a re-check timer changes no endpoint's assigned count:
\* also when initializePool ran again after the reportFailure that scheduled
\* it, the pool's record of the endpoint keeps the count that the later
\* initializePool and the leases and releases since have produced.
CE_C39 ==
    [][\A o \in ObjIds :
          RecheckFires(o) =>
              \A id \in ProxyIds :
                  PoolGet(proxyPool, heap, id) # None =>
                      AssignedOf(proxyPool', heap', id) = AssignedOf(proxyPool, heap, id)]_vars

\* the endpoints of the pool, other than p, that a lease can be given from:
\* healthy and with an assigned count below the maximum per endpoint
Replacements(pool, h, p) ==
    {q \in ProxyIds \ {p} :
        /\ PoolGet(pool, h, q) # None
        /\ EndpointRecord(pool, h, q).healthy
        /\ AssignedOf(pool, h, q) < MaxSessionsPerProxy}

\* C40: a failure reported for a pooled endpoint marks it unhealthy, raises
\* its consecutive-failure count by one and lowers its assigned count by one,
\* not below 0; the replacement returned is never that endpoint: it is a
\* healthy endpoint whose assigned count was below the maximum per endpoint,
\* or None when there is no such endpoint.
Thm_C40 ==
    [][\A p \in ProxyIds, sameMs \in BOOLEAN :
          (HandleProxyFailure(p, sameMs) /\ PoolGet(proxyPool, heap, p) # None) =>
              LET before == EndpointRecord(proxyPool, heap, p)
                  after == EndpointRecord(proxyPool', heap', p)
              IN /\ after.id = p
                 /\ ~after.healthy
                 /\ after.consecutiveFailures = before.consecutiveFailures + 1
                 /\ after.assignedSessions =
                        IF before.assignedSessions >= 1 THEN before.assignedSessions - 1
                        ELSE 0
                 /\ leased' # p
                 /\ leased' \in Replacements(proxyPool, heap, p) \cup {None}
                 /\ (leased' = None) = (Replacements(proxyPool, heap, p) = {})]_vars

\* a failure was reported for an endpoint that held a lease and another
\* endpoint was returned in its place
Wit_C40 ==
    /\ lastOp = "reportFailure"
    /\ leased # None
    /\ \E p \in ProxyIds \ {leased} :
          /\ PoolGet(proxyPool, heap, p) # None
          /\ ~EndpointRecord(proxyPool, heap, p).healthy
          /\ EndpointRecord(proxyPool, heap, p).consecutiveFailures = 1
          /\ AssignedOf(proxyPool, heap, p) = 1
          /\ \E o \in ObjIds : heap[o].id = p /\ timers[o] > 0

====
